---- MODULE Spec2Model ----
(***************************************************************************)
(* Scoring ledger of the ML-Fest platform: flag submission                 *)
(* (routes/api.py), approval and rejection of score entries                *)
(* (routes/evaluator.py, routes/admin.py), the cached total of a user      *)
(* (models.py) and the event gate (routes/admin.py); the rate limit of     *)
(* submission under a clock; the deletion of users; the timed quiz of      *)
(* round 1 (routes/round1.py); the event controls of the admin; the        *)
(* validation of a submitted flag against literal and pattern flags        *)
(* (models.py); and the personalised flags generated at registration and   *)
(* login (models.py, routes/auth.py).                                      *)
(*                                                                         *)
(* Every HTTP request has its own SQLAlchemy session (main.py:149-171,     *)
(* autoflush=False, database.py:16).  A handler that reads, decides and    *)
(* then commits is modelled as two steps, the reads and the commit, so     *)
(* that requests interleave between them; the database applies each        *)
(* commit atomically.  The requests in flight are a bag: two requests      *)
(* with the same inputs and the same loaded rows are two requests.         *)
(***************************************************************************)
EXTENDS Integers, Sequences, FiniteSets, Bags, TLC

VARIABLES
    event_active,          \* SiteConfig.event_active
    now,                   \* datetime.utcnow(), in seconds; stands still in Spec
    scores,                \* table scores: id -> row
    submissions,           \* table submissions, in insertion order
    total_points,          \* users.total_points, the cached total
    _submission_tracker,   \* api._submission_tracker: user id -> timestamps
    reqs,                  \* bag of requests in flight: what each has loaded
    response,              \* the response a handler is returning
    calls,                 \* approve and reject requests that loaded an entry
    users,                 \* table users: the ids of the rows that exist
    active_round,          \* SiteConfig.active_round
    quiz_attempts,         \* table quiz_attempts: id -> row
    leaderboard_public,    \* SiteConfig.leaderboard_public
    assigned_evaluator_id, \* users.assigned_evaluator_id: user id -> id or None
    flag_contents,         \* flags.flag_content: flag id -> text
    user_flags             \* table user_flags: id -> row

vars == <<event_active, now, scores, submissions, total_points,
          _submission_tracker, reqs, response, calls, users,
          active_round, quiz_attempts, leaderboard_public,
          assigned_evaluator_id, flag_contents, user_flags>>

----------------------------------------------------------------------------
(* Bounds of the model. *)

\* Submit calls followed per participant.
MaxTracked == 2
\* Approve and reject calls followed.
MaxReviews == 2
\* The last instant the clock of SpecRate is followed to, in seconds.
MaxTime == 60
\* The seconds between two readings of the clock in SpecRate.
TickStep == 30

(* Program constants. *)

max_attempts == 5
window == 60

None == 0 - 1              \* NULL / None in a numeric column

----------------------------------------------------------------------------
(* Rows of table users.  Roles are columns is_admin and is_evaluator. *)

Participants == {1}
Evaluators == {2}
Admins == {3}
Users == Participants \cup Evaluators \cup Admins

is_admin(u) == u \in Admins
is_evaluator(u) == u \in Evaluators

(* The workers that serve requests concurrently. *)
Reqs == {1, 2}

----------------------------------------------------------------------------
(* challenge_catalog.CATALOG, keyed by order (get_catalog_by_order). *)

CATALOG ==
    (1 :> [total_points |-> 2, flag_points_max |-> 1, explanation_points_max |-> 1]) @@
    (2 :> [total_points |-> 3, flag_points_max |-> 1, explanation_points_max |-> 2]) @@
    (3 :> [total_points |-> 4, flag_points_max |-> 2, explanation_points_max |-> 2]) @@
    (4 :> [total_points |-> 3, flag_points_max |-> 2, explanation_points_max |-> 1]) @@
    (5 :> [total_points |-> 3, flag_points_max |-> 2, explanation_points_max |-> 1])

(* Rows of table challenges that exist (sync_challenge_catalog seeds them  *)
(* in catalog order, so id = order_position); each has one flag, of        *)
(* flag_order 1, and the flag's id is the challenge's.                     *)
Challenges == {1, 2}
order_position(c) == c
flags(c) == <<c>>
points_value(f) == CATALOG[f].total_points

(* Flag texts are words over a small alphabet with both cases.  The       *)
(* catalog gives each flag its text; flags.flag_content holds it.          *)
catalog_flag_content(f) == IF f = 1 THEN <<"C", "a">> ELSE <<"C", "b">>

flag_content(f) == flag_contents[f]

Texts == {<< >>, <<"c", "A">>, <<"C", "b">>}
ChallengeInputs == {0, 1, 2, 9}
NoOrder == 0 - 1
OrderInputs == {NoOrder, 1, 2}
PointInputs == {<<0 - 1, 3>>, <<3, 1>>}     \* (flag_points, explanation_points)
ScoreIds == 1..MaxTracked

LowerChar(ch) ==
    CASE ch = "A" -> "a"
      [] ch = "B" -> "b"
      [] ch = "C" -> "c"
      [] ch = "REGEX:" -> "regex:"
      [] OTHER -> ch

lower(s) == [i \in 1..Len(s) |-> LowerChar(s[i])]

(* The marker of a pattern, one letter of the alphabet here, and the       *)
(* letter that stands for a repetition count no pattern may have           *)
(* (a{99999999999999999999}).                                              *)
Marker == "REGEX:"
TooLarge == "{N}"

(* str.startswith and str.replace(old, "") for a marker of one letter. *)
startswith(s, prefix) == s # << >> /\ s[1] = prefix

replace(s, old) == SelectSeq(s, LAMBDA ch : ch # old)

(* re.match(pattern, string) over the letters, "." and "(": the pattern is *)
(* compiled first, which raises OverflowError at a repetition count that   *)
(* is too large and re.error at a group left open; a compiled pattern      *)
(* matches at the start of the string, letter for letter.                  *)
re_match(pattern, string) ==
    IF \E i \in DOMAIN pattern : pattern[i] = TooLarge THEN "OverflowError"
    ELSE IF \E i \in DOMAIN pattern : pattern[i] = "(" THEN "error"
    ELSE IF /\ Len(string) >= Len(pattern)
            /\ \A i \in DOMAIN pattern :
                  pattern[i] = "." \/ pattern[i] = string[i]
         THEN "match"
    ELSE "none"

(* Flag.validate_flag on the text of the flag: what it returns, or the     *)
(* exception that leaves it (re.error is caught, models.py:185).           *)
validate(content, submitted_flag) ==
    IF lower(content) = lower(submitted_flag) THEN "True"
    ELSE IF startswith(content, Marker) THEN
        LET found == re_match(replace(content, Marker), submitted_flag)
        IN  CASE found = "match" -> "True"
              [] found = "OverflowError" -> "OverflowError"
              [] OTHER -> "False"
    ELSE "False"

(* Flag.validate_flag of flag f returns True. *)
validate_flag(f, submitted_flag) ==
    validate(flag_content(f), submitted_flag) = "True"

----------------------------------------------------------------------------
(* Helpers over the tables. *)

RECURSIVE SumPoints(_, _)
SumPoints(tbl, ids) ==
    IF ids = {} THEN 0
    ELSE LET i == CHOOSE x \in ids : TRUE
         IN tbl[i].points + SumPoints(tbl, ids \ {i})

(* A total that counts pending entries as well. *)
get_all_points(tbl, u) ==
    SumPoints(tbl, {i \in DOMAIN tbl : tbl[i].user_id = u})

(* User.get_total_points: SUM(points) over the user's approved rows. *)
get_total_points(tbl, u) ==
    SumPoints(tbl, {i \in DOMAIN tbl : tbl[i].user_id = u /\ tbl[i].is_approved})

(* The lookup that finds approved entries only. *)
existing_approved(tbl, u, f) ==
    {i \in DOMAIN tbl : tbl[i].user_id = u /\ tbl[i].flag_id = f /\ tbl[i].is_approved}

(* filter_by(user_id=..., flag_id=...).first() on table scores. *)
existing_score(tbl, u, f) ==
    {i \in DOMAIN tbl : tbl[i].user_id = u /\ tbl[i].flag_id = f}

Max(S) == CHOOSE x \in S : \A y \in S : y <= x

(* The id the database gives a new row of scores: INTEGER PRIMARY KEY      *)
(* without AUTOINCREMENT (SQLite, the default DATABASE_URL) is one more    *)
(* than the largest id in the table.                                       *)
NextScoreId(tbl) == Max(DOMAIN tbl \cup {0}) + 1

NoScore ==
    [user_id |-> 0, challenge_id |-> 0, flag_id |-> 0, points |-> 0,
     flag_points |-> 0, explanation_points |-> 0, is_approved |-> FALSE,
     approved_by |-> None, approved_at |-> None,
     leaderboard_visible |-> FALSE]

(* What a request in flight holds: its inputs and what it has loaded. *)
Request ==
    [op |-> "idle", user |-> 0, challenge_id |-> 0, flag_id |-> 0,
     submitted_flag |-> << >>, score_id |-> 0, score |-> NoScore,
     flag_pts |-> 0, expl_pts |-> 0, new_total |-> None, points |-> 0]

(* Challenge.get_user_progress, the challenge_progress of a response. *)
get_user_progress(tbl, c, u) ==
    LET mine(b) == {i \in DOMAIN tbl : /\ tbl[i].user_id = u
                                        /\ tbl[i].challenge_id = c
                                        /\ tbl[i].is_approved = b}
    IN  [completed_flags |-> Cardinality({tbl[i].flag_id : i \in mine(TRUE)}),
         pending_flags |-> Cardinality({tbl[i].flag_id : i \in mine(FALSE)}),
         total_flags |-> Len(flags(c)),
         points_earned |-> SumPoints(tbl, mine(TRUE)),
         total_possible |-> CATALOG[order_position(c)].total_points]

NoProgress ==
    [completed_flags |-> 0, pending_flags |-> 0, total_flags |-> 0,
     points_earned |-> 0, total_possible |-> 0]

NoResponse ==
    [op |-> "idle", result |-> "none", points |-> 0, user |-> 0, id |-> 0,
     challenge_progress |-> NoProgress, leaderboard |-> << >>,
     pending_rows |-> {}]

(* A handler's return is a step of its own: nothing else runs between the  *)
(* step that builds a response and the step that hands it over.            *)
Quiet == response = NoResponse

(* A worker is free to take a request. *)
Free == Quiet /\ BagCardinality(reqs) < Cardinality(Reqs)

(* Request q is in flight and about to commit. *)
Committing(q, op) == Quiet /\ BagIn(q, reqs) /\ q.op = op

(* A request goes on to its commit, and a request ends. *)
Begin(q) == reqs' = reqs (+) SetToBag({q})
End(q) == reqs' = reqs (-) SetToBag({q})

(* The model follows a bounded number of approvals and rejections. *)
Review ==
    /\ calls < MaxReviews
    /\ calls' = calls + 1

(* user's call of op on id (a flag or a score entry) is answered. *)
Respond(op, user, id, result, points) ==
    response' = [NoResponse EXCEPT !.op = op, !.result = result,
                                   !.points = points, !.user = user, !.id = id]

(* A submit call is answered with the user's progress in the challenge. *)
RespondProgress(user, id, result, points, progress) ==
    response' = [NoResponse EXCEPT !.op = "submit", !.result = result,
                                   !.points = points, !.user = user, !.id = id,
                                   !.challenge_progress = progress]

(***************************************************************************)
(* Personalised flags (models.py).  A row of user_flags holds the value    *)
(* derived for one user and one flag.  The value is kept in parts: the     *)
(* body copied from the flag's text, the challenge id of the fallback      *)
(* format and the keyed digest of (user id, flag id, username); the        *)
(* username is fixed at registration, so the digest is a function of the   *)
(* two ids.  A flag text whose first letter is "C" stands for a text of    *)
(* the form CTF{...}.                                                      *)
(***************************************************************************)
UserFlag(u, f, c, value) ==
    [user_id |-> u, flag_id |-> f, challenge_id |-> c, flag_value |-> value]

token(u, f) == <<u, f>>

unique_flag(u, f, content) ==
    IF content # << >> /\ LowerChar(content[1]) = "c"
    THEN [inner |-> Tail(content), ch |-> None, token |-> token(u, f)]
    ELSE [inner |-> << >>, ch |-> f, token |-> token(u, f)]

AllFlags == UNION {{flags(c)[i] : i \in DOMAIN flags(c)} : c \in Challenges}

(* INSERT under uf_user_flag_unique: a second row for the pair is refused. *)
uf_user_flag_unique(tbl, row) ==
    \A i \in DOMAIN tbl :
        tbl[i].user_id # row.user_id \/ tbl[i].flag_id # row.flag_id

add_user_flag(tbl, row) ==
    IF uf_user_flag_unique(tbl, row)
    THEN tbl @@ (NextScoreId(tbl) :> row)
    ELSE tbl

(* The loop of generate_user_flags over the flags fs, in id order: a pair  *)
(* that has a row is skipped.                                              *)
RECURSIVE generate_for(_, _, _, _)
generate_for(tbl, contents, u, fs) ==
    IF fs = {} THEN tbl
    ELSE LET f == CHOOSE x \in fs : \A y \in fs : x <= y
             found == \E i \in DOMAIN tbl :
                          tbl[i].user_id = u /\ tbl[i].flag_id = f
             row == UserFlag(u, f, f, unique_flag(u, f, contents[f]))
         IN  generate_for(IF found THEN tbl ELSE add_user_flag(tbl, row),
                          contents, u, fs \ {f})

(* A generation that derives every value again from the present texts.     *)
generate_afresh(tbl, contents, u) ==
    LET kept == {i \in DOMAIN tbl : tbl[i].user_id # u}
        mine == {i \in DOMAIN tbl : tbl[i].user_id = u}
        again == [i \in mine |->
                    [tbl[i] EXCEPT !.flag_value =
                        unique_flag(u, tbl[i].flag_id, contents[tbl[i].flag_id])]]
    IN  generate_for([i \in kept |-> tbl[i]] @@ again, contents, u, AllFlags)

generate_user_flags(tbl, contents, u) == generate_for(tbl, contents, u, AllFlags)

(* The rows of the users who came in through /register, in id order. *)
RECURSIVE registered_flags(_, _, _)
registered_flags(tbl, contents, us) ==
    IF us = {} THEN tbl
    ELSE LET u == CHOOSE x \in us : \A y \in us : x <= y
         IN  registered_flags(generate_user_flags(tbl, contents, u),
                              contents, us \ {u})

----------------------------------------------------------------------------
Init ==
    /\ event_active = FALSE
    /\ now = 0
    /\ scores = << >>
    /\ submissions = << >>
    /\ total_points = [u \in Users |-> 0]
    /\ _submission_tracker = [u \in Users |-> << >>]
    /\ reqs = EmptyBag
    /\ response = NoResponse
    /\ calls = 0
    /\ users = Users
    /\ active_round = 0
    /\ quiz_attempts = << >>
    /\ leaderboard_public = FALSE
    /\ assigned_evaluator_id = [u \in Users |-> None]
    /\ flag_contents = [c \in Challenges |-> catalog_flag_content(flags(c)[1])]
    /\ user_flags = registered_flags(<< >>, flag_contents, Users \ Admins)

(* admin.toggle_event *)
toggle_event(caller) ==
    /\ Quiet
    /\ is_admin(caller)
    /\ event_active' = ~event_active
    /\ UNCHANGED <<leaderboard_public, assigned_evaluator_id, flag_contents, user_flags, quiz_attempts, active_round, users, now, scores, submissions, total_points,
                   _submission_tracker, reqs, response, calls>>

----------------------------------------------------------------------------
(* A purge that keeps every timestamp. *)
_check_all(tracker, u) == tracker[u]

(* A purge that forgets every timestamp. *)
_check_none(tracker, u) == << >>

(* api._check_rate_limit: the user's timestamps younger than the window. *)
_check_rate_limit(tracker, u) ==
    SelectSeq(tracker[u], LAMBDA t : now - t < window)

(* A record that appends nothing. *)
_record_none(tracker, u) == tracker

(* A writer that stores its own timestamp over the list. *)
_record_over(tracker, u) ==
    [tracker EXCEPT ![u] = <<now>>]

(* api._record_attempt *)
_record_attempt(tracker, u) ==
    [tracker EXCEPT ![u] = Append(tracker[u], now)]

(* A row of table submissions that is marked correct whatever the match. *)
Submission_correct(u, c, f, text, correct) ==
    [user_id |-> u, challenge_id |-> c, flag_id |-> f, submitted_flag |-> text,
     is_correct |-> TRUE, submitted_at |-> now]

(* Rows of table submissions and scores as _submit_flag_internal builds them. *)
(* An attempt logged as incorrect whatever the match. *)
Submission_wrong(u, c, f, text, correct) ==
    [user_id |-> u, challenge_id |-> c, flag_id |-> f, submitted_flag |-> text,
     is_correct |-> FALSE, submitted_at |-> now]

Submission(u, c, f, text, correct) ==
    [user_id |-> u, challenge_id |-> c, flag_id |-> f, submitted_flag |-> text,
     is_correct |-> correct, submitted_at |-> now]

Score_approved(u, c, f, points) ==
    [NoScore EXCEPT !.user_id = u, !.challenge_id = c, !.flag_id = f,
                    !.points = points, !.is_approved = TRUE]

Score(u, c, f, points) ==
    [NoScore EXCEPT !.user_id = u, !.challenge_id = c, !.flag_id = f,
                    !.points = points]

(* The flag the loop of _submit_flag_internal stops at (api.py:70-74), or  *)
(* None.                                                                   *)
first_match(c, text) ==
    LET hits == {i \in 1..Len(flags(c)) : validate_flag(flags(c)[i], text)}
    IN  IF hits = {} THEN None
        ELSE flags(c)[CHOOSE i \in hits : \A j \in hits : i <= j]

(* The loop of _submit_flag_internal ends in an exception: a flag raises   *)
(* before any flag matches.                                                *)
first_raise(c, text) ==
    \E i \in 1..Len(flags(c)) :
        /\ validate(flag_content(flags(c)[i]), text) \notin {"True", "False"}
        /\ \A j \in 1..(i - 1) : validate(flag_content(flags(c)[j]), text) = "False"

(* Every flag_order is taken. *)
any_order(c, flag_order) == TRUE

(* The flag_order a submission may name (api.py:58-61): the final flag's,  *)
(* of a challenge that has exactly one flag.                               *)
valid_order(c, flag_order) == flag_order = 1 /\ Len(flags(c)) = 1

(* api._submit_flag_internal up to the existing-score check: the gate, the *)
(* required fields, the rate limit, the lookups and the match.  An         *)
(* incorrect submission is written and committed here; a correct one that  *)
(* has no score entry goes on to submit_commit.                            *)
_submit_flag_internal(u, c, text, flag_order) ==
    /\ Free
    /\ LET purged == [_submission_tracker EXCEPT ![u] = _check_rate_limit(_submission_tracker, u)]
           recorded == _record_attempt(purged, u)
           by_order == flag_order # NoOrder
           f == IF by_order THEN flags(c)[1] ELSE first_match(c, text)
           is_correct == IF by_order THEN validate_flag(f, text) ELSE f # None
           raised == IF by_order
                     THEN validate(flag_content(f), text) \notin {"True", "False"}
                     ELSE first_raise(c, text)
       IN
       IF ~event_active THEN
           /\ Respond("submit", u, None, "gate_closed", 0)
           /\ UNCHANGED <<scores, submissions, _submission_tracker, reqs>>
       ELSE IF c = 0 \/ text = << >> THEN
           /\ Respond("submit", u, None, "bad_request", 0)
           /\ UNCHANGED <<scores, submissions, _submission_tracker, reqs>>
       ELSE IF ~(Len(purged[u]) < max_attempts) THEN
           /\ Respond("submit", u, None, "rate_limited", 0)
           /\ _submission_tracker' = purged
           /\ UNCHANGED <<scores, submissions, reqs>>
       ELSE IF c \notin Challenges THEN
           /\ Respond("submit", u, None, "not_found", 0)
           /\ _submission_tracker' = recorded
           /\ UNCHANGED <<scores, submissions, reqs>>
       ELSE IF by_order /\ ~valid_order(c, flag_order) THEN
           /\ Respond("submit", u, None, "invalid_order", 0)
           /\ _submission_tracker' = recorded
           /\ UNCHANGED <<scores, submissions, reqs>>
       ELSE IF raised THEN
           /\ Respond("submit", u, None, "fault", 0)
           /\ _submission_tracker' = recorded
           /\ UNCHANGED <<scores, submissions, reqs>>
       ELSE IF ~is_correct THEN
           /\ submissions' = Append(submissions, Submission(u, c, f, text, FALSE))
           /\ RespondProgress(u, f, "incorrect", 0, get_user_progress(scores, c, u))
           /\ _submission_tracker' = recorded
           /\ UNCHANGED <<scores, reqs>>
       ELSE IF existing_score(scores, u, f) # {} THEN
           /\ RespondProgress(u, f, "already_scored", 0, get_user_progress(scores, c, u))
           /\ _submission_tracker' = recorded
           /\ UNCHANGED <<scores, submissions, reqs>>
       ELSE
           /\ Begin([Request EXCEPT !.op = "submit", !.user = u,
                                    !.challenge_id = c, !.flag_id = f,
                                    !.submitted_flag = text,
                                    !.points = points_value(f)])
           /\ _submission_tracker' = recorded
           /\ UNCHANGED <<scores, submissions, response>>
    /\ UNCHANGED <<leaderboard_public, assigned_evaluator_id, flag_contents, user_flags, quiz_attempts, active_round, users, event_active, now, total_points, calls>>

(* api.submit_flag and api.submit_flag_by_order: a caller whose session    *)
(* names no row of users is anonymous and is turned away.                  *)
submit_flag(u, c, text, flag_order) ==
    IF u \notin users THEN
        /\ Free
        /\ Respond("submit", u, None, "login_required", 0)
        /\ UNCHANGED <<leaderboard_public, assigned_evaluator_id, flag_contents, user_flags, quiz_attempts, active_round, users, event_active, now, scores, submissions, total_points,
                       _submission_tracker, reqs, calls>>
    ELSE _submit_flag_internal(u, c, text, flag_order)

(* An INSERT into a table scores that has no uniqueness constraint. *)
insert_unchecked(tbl, row) == tbl @@ (NextScoreId(tbl) :> row)

(* The INSERT of a score entry under table scores'                         *)
(* UniqueConstraint(user_id, flag_id): a violation (IntegrityError) leaves *)
(* the table as it was.                                                    *)
insert_score(tbl, row) ==
    IF existing_score(tbl, row.user_id, row.flag_id) # {}
    THEN tbl
    ELSE tbl @@ (NextScoreId(tbl) :> row)

(* api._submit_flag_internal, db.add(sub); db.add(score); db.commit().  A  *)
(* violated constraint raises IntegrityError out of the handler: the       *)
(* session is rolled back and the client gets the 500 response             *)
(* (main.py:167-169, 223-227).                                             *)
submit_commit ==
    \E q \in BagToSet(reqs) :
        /\ Committing(q, "submit")
        /\ End(q)
        /\ LET row == Score(q.user, q.challenge_id, q.flag_id, q.points)
               tbl == insert_score(scores, row)
           IN
           IF tbl = scores THEN
               /\ Respond("submit", q.user, q.flag_id, "fault", 0)
               /\ UNCHANGED <<scores, submissions>>
           ELSE
               /\ scores' = tbl
               /\ submissions' = Append(submissions,
                      Submission(q.user, q.challenge_id, q.flag_id, q.submitted_flag, TRUE))
               /\ RespondProgress(q.user, q.flag_id, "pending", q.points,
                                   get_user_progress(tbl, q.challenge_id, q.user))
        /\ UNCHANGED <<leaderboard_public, assigned_evaluator_id, flag_contents, user_flags, quiz_attempts, active_round, users, event_active, now, total_points, _submission_tracker, calls>>

----------------------------------------------------------------------------
(* max(0, min(points, maximum)) *)
clamp(points, maximum) ==
    LET m == IF points < maximum THEN points ELSE maximum
    IN  IF m > 0 THEN m ELSE 0

(* The attributes approve_score assigns to the loaded Score object. *)
approved(score, flag_pts, expl_pts, approver) ==
    [score EXCEPT !.flag_points = flag_pts,
                  !.explanation_points = expl_pts,
                  !.points = flag_pts + expl_pts,
                  !.is_approved = TRUE,
                  !.approved_by = approver,
                  !.approved_at = now,
                  !.leaderboard_visible = TRUE]

(* A write-through that sets every column of the object. *)
flush_all(row, loaded, changed) == changed

(* The UPDATE the session flushes for a changed Score object: it sets the  *)
(* columns whose value differs from the loaded one, in the row that has    *)
(* the object's primary key.                                               *)
flush_update(row, loaded, changed) ==
    [col \in DOMAIN row |->
        IF changed[col] # loaded[col] THEN changed[col] ELSE row[col]]

(* _require_evaluator / _require_admin: who may call the route. *)
allowed(route, caller) ==
    IF route = "admin" THEN is_admin(caller)
    ELSE is_evaluator(caller) \/ is_admin(caller)

(* A lookup that yields an empty object where there is no row. *)
first_blank(tbl, score_id) ==
    IF score_id \in DOMAIN tbl THEN tbl[score_id]
    ELSE [NoScore EXCEPT !.user_id = 1, !.challenge_id = 1, !.flag_id = 1]

(* db.query(Score).get(score_id) / filter_by(id=score_id).first(): the row *)
(* or nothing.                                                             *)
first(tbl, score_id) ==
    IF score_id \in DOMAIN tbl THEN tbl[score_id] ELSE NoScore

flag_max(score) == CATALOG[order_position(score.challenge_id)].flag_points_max
expl_max(score) == CATALOG[order_position(score.challenge_id)].explanation_points_max

(* A request that has loaded score entry score_id and goes on to commit. *)
Loaded(op, caller, score_id, score, flag_pts, expl_pts, new_total) ==
    [Request EXCEPT !.op = op, !.user = caller,
                    !.score_id = score_id, !.score = score,
                    !.flag_pts = flag_pts, !.expl_pts = expl_pts,
                    !.new_total = new_total]

(* evaluator.approve_score, lines 93-114: the entry is loaded and the      *)
(* awards are clamped to the catalog maxima of its challenge.              *)
evaluator_approve_score(caller, score_id, flag_points, explanation_points) ==
    /\ Free
    /\ LET score == first(scores, score_id) IN
       IF ~allowed("evaluator", caller) THEN
           /\ Respond("evaluator_approve", caller, score_id, "redirect", 0)
           /\ UNCHANGED <<reqs, calls>>
       ELSE IF score = NoScore THEN
           /\ Respond("evaluator_approve", caller, score_id, "not_found", 0)
           /\ UNCHANGED <<reqs, calls>>
       ELSE
           /\ Review
           /\ Begin(Loaded("evaluator_approve", caller, score_id, score,
                           clamp(flag_points, flag_max(score)),
                           clamp(explanation_points, expl_max(score)), None))
           /\ UNCHANGED response
    /\ UNCHANGED <<leaderboard_public, assigned_evaluator_id, flag_contents, user_flags, quiz_attempts, active_round, users, event_active, now, scores, submissions, total_points,
                   _submission_tracker>>

(* evaluator.approve_score, lines 116-131: the changes are flushed, the    *)
(* total is recomputed with them visible, and all is committed.  The       *)
(* database holds its write lock from the flush to the commit, so the      *)
(* three happen as one step.  An UPDATE that finds no row with the id      *)
(* raises StaleDataError out of the handler (the 500 response).            *)
evaluator_approve_commit ==
    \E q \in BagToSet(reqs) :
        /\ Committing(q, "evaluator_approve")
        /\ End(q)
        /\ LET changed == approved(q.score, q.flag_pts, q.expl_pts, q.user) IN
           IF q.score_id \notin DOMAIN scores THEN
               /\ Respond(q.op, q.user, q.score_id, "fault", 0)
               /\ UNCHANGED <<scores, total_points>>
           ELSE
               LET tbl == [scores EXCEPT ![q.score_id] =
                              flush_update(scores[q.score_id], q.score, changed)]
               IN
               /\ scores' = tbl
               /\ total_points' = [total_points EXCEPT ![q.score.user_id] =
                                      get_total_points(tbl, q.score.user_id)]
               /\ Respond(q.op, q.user, q.score_id, "approved", changed.points)
        /\ UNCHANGED <<leaderboard_public, assigned_evaluator_id, flag_contents, user_flags, quiz_attempts, active_round, users, event_active, now, submissions, _submission_tracker, calls>>

(* target_user.total_points = target_user.get_total_points(db) on the     *)
(* loaded user: the value the commit will write, None when it equals the   *)
(* loaded one (an unchanged attribute is not written).                     *)
assigned_total(u) ==
    IF get_total_points(scores, u) # total_points[u]
    THEN get_total_points(scores, u) ELSE None

(* admin.approve_score, lines 84-112: the entry is loaded, the awards are  *)
(* clamped, and the total is computed by a query that runs before the      *)
(* changes are flushed (the session does not autoflush).                   *)
admin_approve_score(caller, score_id, flag_points, explanation_points) ==
    /\ Free
    /\ LET score == first(scores, score_id) IN
       IF ~allowed("admin", caller) THEN
           /\ Respond("admin_approve", caller, score_id, "redirect", 0)
           /\ UNCHANGED <<reqs, calls>>
       ELSE IF score = NoScore THEN
           /\ Respond("admin_approve", caller, score_id, "not_found", 0)
           /\ UNCHANGED <<reqs, calls>>
       ELSE
           /\ Review
           /\ Begin(Loaded("admin_approve", caller, score_id, score,
                           clamp(flag_points, flag_max(score)),
                           clamp(explanation_points, expl_max(score)),
                           assigned_total(score.user_id)))
           /\ UNCHANGED response
    /\ UNCHANGED <<leaderboard_public, assigned_evaluator_id, flag_contents, user_flags, quiz_attempts, active_round, users, event_active, now, scores, submissions, total_points,
                   _submission_tracker>>

(* admin.approve_score, line 113: the commit flushes the UPDATE of the     *)
(* entry and, when the computed total differs from the loaded one, the     *)
(* UPDATE of the user.                                                     *)
admin_approve_commit ==
    \E q \in BagToSet(reqs) :
        /\ Committing(q, "admin_approve")
        /\ End(q)
        /\ LET changed == approved(q.score, q.flag_pts, q.expl_pts, q.user) IN
           IF q.score_id \notin DOMAIN scores THEN
               /\ Respond(q.op, q.user, q.score_id, "fault", 0)
               /\ UNCHANGED <<scores, total_points>>
           ELSE
               /\ scores' = [scores EXCEPT ![q.score_id] =
                                flush_update(scores[q.score_id], q.score, changed)]
               /\ total_points' = [total_points EXCEPT ![q.score.user_id] =
                                      IF q.new_total # None THEN q.new_total ELSE @]
               /\ Respond(q.op, q.user, q.score_id, "approved", changed.points)
        /\ UNCHANGED <<leaderboard_public, assigned_evaluator_id, flag_contents, user_flags, quiz_attempts, active_round, users, event_active, now, submissions, _submission_tracker, calls>>

(* evaluator.reject_score, lines 142-150, and admin.reject_score, lines    *)
(* 120-126: the entry is loaded.                                           *)
reject_score(route, caller, score_id) ==
    /\ Free
    /\ IF ~allowed(route, caller) THEN
           /\ Respond("reject", caller, score_id, "redirect", 0)
           /\ UNCHANGED <<reqs, calls>>
       ELSE IF first(scores, score_id) = NoScore THEN
           /\ Respond("reject", caller, score_id, "not_found", 0)
           /\ UNCHANGED <<reqs, calls>>
       ELSE
           /\ Review
           /\ Begin([Request EXCEPT !.op = "reject", !.user = caller,
                                    !.score_id = score_id])
           /\ UNCHANGED response
    /\ UNCHANGED <<leaderboard_public, assigned_evaluator_id, flag_contents, user_flags, quiz_attempts, active_round, users, event_active, now, scores, submissions, total_points,
                   _submission_tracker>>

(* A rejection that keeps the row. *)
keep_score(tbl, score_id) == tbl

(* db.delete(score); db.commit(): DELETE of the row that has the id.  A    *)
(* DELETE that finds no row only warns.                                    *)
delete_score(tbl, score_id) ==
    [i \in DOMAIN tbl \ {score_id} |-> tbl[i]]

reject_commit ==
    \E q \in BagToSet(reqs) :
        /\ Committing(q, "reject")
        /\ End(q)
        /\ scores' = delete_score(scores, q.score_id)
        /\ Respond("reject", q.user, q.score_id, "rejected", 0)
        /\ UNCHANGED <<leaderboard_public, assigned_evaluator_id, flag_contents, user_flags, quiz_attempts, active_round, users, event_active, now, submissions, total_points,
                       _submission_tracker, calls>>

(* challenges.dashboard: the page of a user brings the cached total in     *)
(* line with the approved entries.                                         *)
dashboard(u) ==
    /\ Quiet
    /\ total_points[u] # get_total_points(scores, u)
    /\ total_points' = [total_points EXCEPT ![u] = get_total_points(scores, u)]
    /\ UNCHANGED <<leaderboard_public, assigned_evaluator_id, flag_contents, user_flags, quiz_attempts, active_round, users, event_active, now, scores, submissions,
                   _submission_tracker, reqs, response, calls>>

(* The response is handed to the client. *)
deliver ==
    /\ ~Quiet
    /\ response' = NoResponse
    /\ UNCHANGED <<leaderboard_public, assigned_evaluator_id, flag_contents, user_flags, quiz_attempts, active_round, users, event_active, now, scores, submissions, total_points,
                   _submission_tracker, reqs, calls>>

----------------------------------------------------------------------------
(* The rows of table tbl that are not user's. *)
without_user(tbl, user) == SelectSeq(tbl, LAMBDA row : row.user_id # user)

(* The cascade of User.submissions, cascade="all, delete-orphan": the      *)
(* user's rows of table submissions are deleted with the user.             *)
cascade_submissions(tbl, user) == without_user(tbl, user)

(* The cascade of User.scores, and User.approved_scores, which has no      *)
(* cascade: the entries the user approved lose their approved_by.          *)
cascade_scores(tbl, user) ==
    [i \in {j \in DOMAIN tbl : tbl[j].user_id # user} |->
        IF tbl[i].approved_by = user
        THEN [tbl[i] EXCEPT !.approved_by = None]
        ELSE tbl[i]]

(* admin.delete_user: db.delete(target); db.commit(). *)
delete_user(caller, user_id) ==
    /\ Quiet
    /\ is_admin(caller) /\ caller \in users
    /\ user_id \in users /\ user_id # caller
    /\ users' = users \ {user_id}
    /\ submissions' = cascade_submissions(submissions, user_id)
    /\ scores' = cascade_scores(scores, user_id)
    /\ quiz_attempts' = [i \in {j \in DOMAIN quiz_attempts :
                                    quiz_attempts[j].user_id # user_id}
                            |-> quiz_attempts[i]]
    /\ UNCHANGED <<leaderboard_public, assigned_evaluator_id, flag_contents, user_flags, active_round, event_active, now, total_points,
                   _submission_tracker, reqs, response, calls>>

----------------------------------------------------------------------------
Next ==
    \/ \E caller \in Users : toggle_event(caller)
    \/ \E u \in Participants, c \in ChallengeInputs,
          text \in Texts, flag_order \in OrderInputs :
            /\ Len(_submission_tracker[u]) < MaxTracked
            /\ submit_flag(u, c, text, flag_order)
    \/ submit_commit
    \/ \E caller \in Participants \cup Evaluators,
          score_id \in ScoreIds, award \in PointInputs :
            evaluator_approve_score(caller, score_id, award[1], award[2])
    \/ evaluator_approve_commit
    \/ \E caller \in Evaluators \cup Admins,
          score_id \in ScoreIds, award \in PointInputs :
            admin_approve_score(caller, score_id, award[1], award[2])
    \/ admin_approve_commit
    \/ \E route \in {"evaluator", "admin"},
          caller \in Evaluators \cup Admins, score_id \in ScoreIds :
            reject_score(route, caller, score_id)
    \/ reject_commit
    \/ \E u \in Participants : dashboard(u)
    \/ deliver

Spec == Init /\ [][Next]_vars

----------------------------------------------------------------------------
(* Submission and the deletion of users: the calls that write table        *)
(* submissions, with the approval and the event control they run beside.   *)

NextSubmit ==
    \/ \E caller \in Admins : toggle_event(caller)
    \/ \E u \in Participants, c \in ChallengeInputs,
          text \in Texts, flag_order \in OrderInputs :
            /\ Len(_submission_tracker[u]) < MaxTracked
            /\ submit_flag(u, c, text, flag_order)
    \/ submit_commit
    \/ \E caller \in Evaluators, score_id \in ScoreIds :
            evaluator_approve_score(caller, score_id, 1, 1)
    \/ evaluator_approve_commit
    \/ \E caller \in Admins, user_id \in Participants \cup Admins :
            delete_user(caller, user_id)
    \/ deliver

SpecSubmit == Init /\ [][NextSubmit]_vars

----------------------------------------------------------------------------
(* The properties checked. *)

ApproveOps == {"evaluator_approve", "admin_approve"}
ReviewOps == ApproveOps \cup {"reject"}
RouteOf(op) == IF op = "admin_approve" THEN "admin" ELSE "evaluator"

(* The step ends request q, with a commit or with a fault. *)
Ends(q) == BagIn(q, reqs) /\ reqs' = reqs (-) SetToBag({q})

(* The step takes request q into flight. *)
Begins(q) == CopiesIn(q, reqs') > CopiesIn(q, reqs)

(* The step answers a call of one of ops without taking it into flight. *)
Direct(ops) == Quiet /\ response' # NoResponse /\ reqs' = reqs /\ response'.op \in ops

(* C1: in every reachable state, whatever interleaving of submit, approve *)
(* and reject calls led there, at most one score entry exists for each     *)
(* (participant, flag) pair.                                               *)
C1_OneEntryPerPair ==
    \A i, j \in DOMAIN scores :
        (scores[i].user_id = scores[j].user_id /\ scores[i].flag_id = scores[j].flag_id)
            => i = j

(* The second of two parallel correct submissions of a flag has met the    *)
(* entry the first one committed.                                          *)
C1_Witness ==
    /\ response.op = "submit" /\ response.result = "fault"
    /\ existing_score(scores, response.user, response.id) # {}

(* C2: a submit request that commits after an entry for its (participant,  *)
(* flag) pair has appeared is answered already-scored and writes nothing,  *)
(* and no submit request ends in a fault.                                  *)
C2_LoserAlreadyScored ==
    [][\A q \in BagToSet(reqs) :
          (q.op = "submit" /\ Ends(q)) =>
              /\ response'.result # "fault"
              /\ existing_score(scores, q.user, q.flag_id) # {} =>
                     (response'.result = "already_scored" /\ scores' = scores)]_vars

(* C3: when an approve call on an existing entry completes, through either *)
(* route, the cached total of the entry's participant equals the sum of    *)
(* the points of that participant's approved entries, the entry just       *)
(* approved included.                                                      *)
C3_TotalAfterApprove ==
    [][\A q \in BagToSet(reqs) :
          (q.op \in ApproveOps /\ Ends(q) /\ response'.result = "approved") =>
              total_points'[q.score.user_id] = get_total_points(scores', q.score.user_id)]_vars

(* C4: every approved entry has 0 <= flag_points <= flagMax,               *)
(* 0 <= explanation_points <= explanationMax and                           *)
(* points = flag_points + explanation_points.                              *)
C4_AwardsInRange ==
    \A i \in DOMAIN scores :
        scores[i].is_approved =>
            /\ 0 <= scores[i].flag_points
            /\ scores[i].flag_points <= flag_max(scores[i])
            /\ 0 <= scores[i].explanation_points
            /\ scores[i].explanation_points <= expl_max(scores[i])
            /\ scores[i].points = scores[i].flag_points + scores[i].explanation_points

(* C5: an approved entry is frozen: no step deletes it or changes its      *)
(* awards, its approver or its approval timestamp.                         *)
C5_ApprovedFrozen ==
    [][\A i \in DOMAIN scores :
          scores[i].is_approved =>
              /\ i \in DOMAIN scores'
              /\ scores'[i].flag_points = scores[i].flag_points
              /\ scores'[i].explanation_points = scores[i].explanation_points
              /\ scores'[i].points = scores[i].points
              /\ scores'[i].approved_by = scores[i].approved_by
              /\ scores'[i].approved_at = scores[i].approved_at]_vars

(* C6: when a reject call completes, the cached total of the participant   *)
(* whose entry it deleted equals the sum of the points of that             *)
(* participant's remaining approved entries.                               *)
C6_TotalAfterReject ==
    [][\A q \in BagToSet(reqs) :
          (q.op = "reject" /\ Ends(q) /\ q.score_id \in DOMAIN scores) =>
              LET u == scores[q.score_id].user_id
              IN  total_points'[u] = get_total_points(scores', u)]_vars

(* C7: an approve call that loaded a pending entry does not end in a       *)
(* fault, whatever reject call ran beside it.                              *)
C7_NoFaultInRace ==
    [][\A q \in BagToSet(reqs) :
          (q.op \in ApproveOps /\ ~q.score.is_approved /\ Ends(q)) =>
              response'.result # "fault"]_vars

(* C8: an approve or reject call goes on to its commit only if the entry   *)
(* exists when it is called; called with an id that has no entry it is     *)
(* answered at once, not-found for a caller the route admits, with every   *)
(* score entry, submission and cached total unchanged.                     *)
C8_MissingEntryNoOp ==
    [][/\ \A q \in BagToSet(reqs') :
              (q.op \in ReviewOps /\ Begins(q)) => q.score_id \in DOMAIN scores
       /\ (Direct(ReviewOps) /\ response'.id \notin DOMAIN scores) =>
              /\ response'.result \in {"not_found", "redirect"}
              /\ response'.result = "redirect" =>
                     /\ ~is_admin(response'.user)
                     /\ response'.op # "reject" =>
                            ~allowed(RouteOf(response'.op), response'.user)
              /\ UNCHANGED <<scores, submissions, total_points>>]_vars

(* A reject of the one entry that was created and has been rejected is     *)
(* answered not-found.                                                     *)
C8_Witness ==
    /\ response.op = "reject" /\ response.result = "not_found" /\ response.id = 1
    /\ Len(submissions) = 1 /\ submissions[1].is_correct
    /\ scores = << >>
    /\ calls > 0

(* C9: a completed reject leaves no entry with the id it rejected; a       *)
(* submission is answered already-scored only if an entry exists for its   *)
(* (participant, flag) pair; and a submission answered pending has created *)
(* a new pending entry for the pair.                                       *)
C9_RejectReturnsToUnscored ==
    [][/\ \A q \in BagToSet(reqs) :
              (q.op = "reject" /\ Ends(q)) => q.score_id \notin DOMAIN scores'
       /\ (Direct({"submit"}) /\ response'.result = "already_scored") =>
              existing_score(scores, response'.user, response'.id) # {}
       /\ (Quiet /\ response'.op = "submit" /\ response'.result = "pending") =>
              \E i \in existing_score(scores', response'.user, response'.id) :
                  i \notin DOMAIN scores /\ ~scores'[i].is_approved]_vars

(* After a rejection the participant has submitted the flag again and has  *)
(* a new pending entry.                                                    *)
C9_Witness ==
    /\ Len(submissions) = 2
    /\ submissions[1].is_correct /\ submissions[2].is_correct
    /\ submissions[1].user_id = submissions[2].user_id
    /\ submissions[1].flag_id = submissions[2].flag_id
    /\ calls > 0
    /\ \E i \in existing_score(scores, submissions[2].user_id, submissions[2].flag_id) :
           ~scores[i].is_approved

(* C10: a correct submission that commits while no entry exists for its    *)
(* (participant, flag) pair appends one correct submission, creates one    *)
(* pending entry whose points are the flag's value, is answered pending    *)
(* with that value, and leaves every other entry and the cached totals     *)
(* as they were.                                                           *)
C10_CorrectSubmission ==
    [][\A q \in BagToSet(reqs) :
          (q.op = "submit" /\ Ends(q) /\ existing_score(scores, q.user, q.flag_id) = {}) =>
              /\ response'.result = "pending"
              /\ response'.points = points_value(q.flag_id)
              /\ Len(submissions') = Len(submissions) + 1
              /\ SubSeq(submissions', 1, Len(submissions)) = submissions
              /\ submissions'[Len(submissions')].is_correct
              /\ submissions'[Len(submissions')].user_id = q.user
              /\ submissions'[Len(submissions')].flag_id = q.flag_id
              /\ \E i \in DOMAIN scores' \ DOMAIN scores :
                     /\ DOMAIN scores' = DOMAIN scores \cup {i}
                     /\ scores'[i].user_id = q.user
                     /\ scores'[i].flag_id = q.flag_id
                     /\ scores'[i].points = points_value(q.flag_id)
                     /\ ~scores'[i].is_approved
              /\ \A j \in DOMAIN scores : scores'[j] = scores[j]
              /\ total_points' = total_points]_vars

(* A correct submission has been answered pending with the flag's value.   *)
C10_Witness ==
    /\ response.op = "submit" /\ response.result = "pending"
    /\ response.points = points_value(response.id)
    /\ \E i \in existing_score(scores, response.user, response.id) :
           ~scores[i].is_approved /\ scores[i].points = response.points

----------------------------------------------------------------------------
(* The rate limit of submission, under a clock.  The participant posts a   *)
(* challenge id that exists or not, a flag that matches or not, with no    *)
(* flag_order or with one that is not valid.                               *)

(* datetime.utcnow() moves on. *)
Tick ==
    /\ now < MaxTime
    /\ now' = now + TickStep
    /\ UNCHANGED <<leaderboard_public, assigned_evaluator_id, flag_contents, user_flags, quiz_attempts, active_round, users, event_active, scores, submissions, total_points,
                   _submission_tracker, reqs, response, calls>>

RateChallenges == {0, 1, 9}
RateOrders == {NoOrder, 2}

NextRate ==
    \/ \E caller \in Admins : toggle_event(caller)
    \/ \E u \in Participants, c \in RateChallenges,
          text \in Texts, flag_order \in RateOrders :
            submit_flag(u, c, text, flag_order)
    \/ submit_commit
    \/ Tick
    \/ deliver

SpecRate == Init /\ [][NextRate]_vars

----------------------------------------------------------------------------
(* Round 1, the timed quiz (routes/round1.py, models.QuizAttempt).         *)

(* round1_questions.json: the questions with their correct options, the    *)
(* duration, the tab switches allowed and the points of a question.        *)
QUESTIONS == <<[answer |-> 1], [answer |-> 0]>>
DURATION_MINUTES == 1
MAX_TAB_SWITCHES == 2
POINTS_PER_Q == 1

(* What the quiz calls carry: the position and the option of a save, None  *)
(* where the body lacks it, and the round an admin sets.                   *)
Positions == {0, 1, 2}
Options == {0, 1}
RoundInputs == {0, 1, 4}

(* The tables and counters the quiz leaves alone. *)
ledger == <<event_active, scores, submissions, total_points,
            _submission_tracker, calls, users, leaderboard_public,
            assigned_evaluator_id, flag_contents, user_flags>>

(* admin.set_active_round *)
set_active_round(caller, round_number) ==
    /\ Quiet
    /\ is_admin(caller)
    /\ active_round' = IF round_number \in {0, 1, 2, 3} THEN round_number
                       ELSE active_round
    /\ UNCHANGED <<ledger, now, quiz_attempts, reqs, response>>

(* A gate that every caller passes. *)
_round1_open(u) == TRUE

(* round1._round1_allowed *)
_round1_allowed(u) == is_admin(u) \/ active_round >= 1

(* An order drawn anew at every call. *)
_get_drawn_order(user_id) ==
    IF now = 0 THEN <<0, 1>> ELSE <<1, 1>>

(* round1._get_shuffled_order: random.Random(user_id * 9973).shuffle of    *)
(* the indices of two questions, for the user ids 1 to 4.                  *)
_get_shuffled_order(user_id) ==
    CASE user_id = 3 -> <<1, 0>>
      [] OTHER -> <<0, 1>>

NoAttempt ==
    [user_id |-> 0, started_at |-> None, finished_at |-> None, answers |-> << >>,
     score |-> 0, tab_switches |-> 0, is_submitted |-> FALSE,
     question_order |-> << >>]

(* The row start_quiz builds. *)
QuizAttempt(u) ==
    [NoAttempt EXCEPT !.user_id = u, !.started_at = now,
                      !.question_order = _get_shuffled_order(u)]

(* filter_by(user_id=user.id).first() on table quiz_attempts: the id of    *)
(* the row, or 0.                                                          *)
attempt_of(tbl, u) ==
    LET ids == {i \in DOMAIN tbl : tbl[i].user_id = u}
    IN  IF ids = {} THEN 0 ELSE CHOOSE i \in ids : \A j \in ids : i <= j

(* round1._compute_score, or None where order[int(idx_str)] raises         *)
(* IndexError; a negative index counts from the end of the list.           *)
_compute_score(attempt) ==
    LET answers == attempt.answers
        order == attempt.question_order
        n == Len(order)
        q_idx(k) == order[(IF k < 0 THEN k + n ELSE k) + 1]
    IN  IF \E k \in DOMAIN answers : k < 0 - n \/ k >= n THEN None
        ELSE POINTS_PER_Q *
             Cardinality({k \in DOMAIN answers :
                            answers[k] = QUESTIONS[q_idx(k) + 1].answer})

(* round1._time_remaining, in seconds *)
_time_remaining(attempt) ==
    IF attempt.is_submitted THEN 0
    ELSE LET remaining == attempt.started_at + 60 * DURATION_MINUTES - now
         IN  IF remaining > 0 THEN remaining ELSE 0

(* The three assignments of every transition into submitted. *)
submitted(attempt) ==
    [attempt EXCEPT !.is_submitted = TRUE, !.finished_at = now,
                    !.score = _compute_score(attempt)]

(* A quiz request in flight: the row it loaded (old) and the object as the *)
(* handler left it (new).                                                  *)
QuizOps == {"start", "save", "tab_switch", "submit_quiz", "page"}

QuizRequest ==
    [op |-> "idle", user |-> 0, id |-> 0, old |-> NoAttempt, new |-> NoAttempt,
     result |-> "none"]

(* The handler goes on to db.commit() with the object changed to new, or   *)
(* ends in the fault _compute_score raised.                                *)
commit_attempt(op, u, id, old, new, result) ==
    IF new.score = None THEN
        /\ Respond(op, u, id, "fault", 0)
        /\ UNCHANGED reqs
    ELSE
        /\ Begin([QuizRequest EXCEPT !.op = op, !.user = u, !.id = id,
                                     !.old = old, !.new = new, !.result = result])
        /\ UNCHANGED response

(* round1.start_quiz *)
start_quiz(u) ==
    /\ Free
    /\ u \in users
    /\ IF ~_round1_allowed(u) THEN
           /\ Respond("start", u, None, "not_active", 0)
           /\ UNCHANGED reqs
       ELSE IF attempt_of(quiz_attempts, u) # 0 THEN
           /\ Respond("start", u, attempt_of(quiz_attempts, u), "exists", 0)
           /\ UNCHANGED reqs
       ELSE commit_attempt("start", u, 0, NoAttempt, QuizAttempt(u), "started")
    /\ UNCHANGED <<ledger, now, active_round, quiz_attempts>>

(* round1.save_answer, a coroutine: from its query to its db.commit() it   *)
(* awaits nothing, so no other save runs in between; the handlers of the   *)
(* thread pool do.  The answer carries len(answers).                       *)
save_answer(u, pos, selected) ==
    /\ Free
    /\ \A q \in BagToSet(reqs) : q.op # "save"
    /\ u \in users
    /\ LET id == attempt_of(quiz_attempts, u)
           attempt == quiz_attempts[id]
       IN
       IF id = 0 \/ attempt.is_submitted THEN
           /\ Respond("save", u, id, "not_in_progress", 0)
           /\ UNCHANGED reqs
       ELSE IF _time_remaining(attempt) <= 0 THEN
           commit_attempt("save", u, id, attempt, submitted(attempt), "expired")
       ELSE IF pos = None \/ selected = None THEN
           /\ Respond("save", u, id, "missing", 0)
           /\ UNCHANGED reqs
       ELSE
           commit_attempt("save", u, id, attempt,
               [attempt EXCEPT !.answers = (pos :> selected) @@ attempt.answers],
               "ok")
    /\ UNCHANGED <<ledger, now, active_round, quiz_attempts>>

(* round1.record_tab_switch *)
record_tab_switch(u) ==
    /\ Free
    /\ u \in users
    /\ LET id == attempt_of(quiz_attempts, u)
           attempt == quiz_attempts[id]
           counted == [attempt EXCEPT !.tab_switches = @ + 1]
       IN
       IF id = 0 \/ attempt.is_submitted THEN
           /\ Respond("tab_switch", u, id, "not_in_progress", 0)
           /\ UNCHANGED reqs
       ELSE IF counted.tab_switches >= MAX_TAB_SWITCHES THEN
           commit_attempt("tab_switch", u, id, attempt, submitted(counted),
                          "auto_submitted")
       ELSE
           commit_attempt("tab_switch", u, id, attempt, counted, "counted")
    /\ UNCHANGED <<ledger, now, active_round, quiz_attempts>>

(* round1.submit_quiz *)
submit_quiz(u) ==
    /\ Free
    /\ u \in users
    /\ LET id == attempt_of(quiz_attempts, u)
           attempt == quiz_attempts[id]
       IN
       IF id = 0 THEN
           /\ Respond("submit_quiz", u, id, "no_attempt", 0)
           /\ UNCHANGED reqs
       ELSE IF attempt.is_submitted THEN
           /\ Respond("submit_quiz", u, id, "already_submitted", 0)
           /\ UNCHANGED reqs
       ELSE IF Cardinality(DOMAIN attempt.answers) < Len(QUESTIONS) THEN
           /\ Respond("submit_quiz", u, id, "incomplete", 0)
           /\ UNCHANGED reqs
       ELSE
           commit_attempt("submit_quiz", u, id, attempt, submitted(attempt),
                          "submitted")
    /\ UNCHANGED <<ledger, now, active_round, quiz_attempts>>

(* round1.round1_page with round1._auto_submit_if_expired *)
round1_page(u) ==
    /\ Free
    /\ u \in users
    /\ LET id == attempt_of(quiz_attempts, u)
           attempt == quiz_attempts[id]
       IN
       IF ~_round1_allowed(u) THEN
           /\ Respond("page", u, None, "not_active", 0)
           /\ UNCHANGED reqs
       ELSE IF id = 0 THEN
           /\ Respond("page", u, id, "landing", 0)
           /\ UNCHANGED reqs
       ELSE IF attempt.is_submitted THEN
           /\ Respond("page", u, id, "submitted", 0)
           /\ UNCHANGED reqs
       ELSE IF _time_remaining(attempt) <= 0 THEN
           commit_attempt("page", u, id, attempt, submitted(attempt), "submitted")
       ELSE
           /\ Respond("page", u, id, "quiz", 0)
           /\ UNCHANGED reqs
    /\ UNCHANGED <<ledger, now, active_round, quiz_attempts>>

(* db.commit() of a quiz handler.  The INSERT of start_quiz is refused     *)
(* under uq_quiz_attempt_user when the user has a row (IntegrityError);    *)
(* the UPDATE of the others sets the columns the handler changed.          *)
quiz_commit ==
    \E q \in BagToSet(reqs) :
        /\ Quiet
        /\ q.op \in QuizOps
        /\ End(q)
        /\ IF q.op = "start" THEN
               IF attempt_of(quiz_attempts, q.user) # 0 THEN
                   /\ Respond("start", q.user, 0, "fault", 0)
                   /\ UNCHANGED quiz_attempts
               ELSE
                   /\ quiz_attempts' =
                        quiz_attempts @@ (NextScoreId(quiz_attempts) :> q.new)
                   /\ Respond("start", q.user, NextScoreId(quiz_attempts), "started", 0)
           ELSE IF q.id \notin DOMAIN quiz_attempts THEN
               /\ Respond(q.op, q.user, q.id, "fault", 0)
               /\ UNCHANGED quiz_attempts
           ELSE
               /\ quiz_attempts' =
                    [quiz_attempts EXCEPT
                        ![q.id] = flush_update(quiz_attempts[q.id], q.old, q.new)]
               /\ Respond(q.op, q.user, q.id, q.result,
                          IF q.op = "save" /\ q.result = "ok"
                          THEN Cardinality(DOMAIN q.new.answers) ELSE 0)
        /\ UNCHANGED <<ledger, now, active_round>>

NextQuiz ==
    \/ \E caller \in Admins, round_number \in RoundInputs :
            set_active_round(caller, round_number)
    \/ \E u \in Participants : start_quiz(u)
    \/ \E u \in Participants, pos \in Positions \cup {None},
          selected \in Options \cup {None} :
            save_answer(u, pos, selected)
    \/ \E u \in Participants : record_tab_switch(u)
    \/ \E u \in Participants : submit_quiz(u)
    \/ \E u \in Participants : round1_page(u)
    \/ quiz_commit
    \/ Tick
    \/ deliver

SpecQuiz == Init /\ [][NextQuiz]_vars

(* The quiz without the clock, with the positions a save body can carry:   *)
(* str(pos) is the key of the answer and int(key) the index into the       *)
(* order, so that 0 - 2 names the first of two questions and 2 none.       *)
AnyPositions == {0, 1, 2, 0 - 2}

NextAnswers ==
    \/ \E caller \in Admins, round_number \in RoundInputs :
            set_active_round(caller, round_number)
    \/ \E u \in Participants : start_quiz(u)
    \/ \E u \in Participants, pos \in AnyPositions, selected \in Options :
            save_answer(u, pos, selected)
    \/ \E u \in Participants : submit_quiz(u)
    \/ quiz_commit
    \/ deliver

SpecAnswers == Init /\ [][NextAnswers]_vars

(* The round gate: the admin sets the round while participants and admins  *)
(* start the quiz.                                                         *)
Starters == Participants \cup Admins

NextRound ==
    \/ \E caller \in Admins, round_number \in RoundInputs \cup {2, 3} :
            set_active_round(caller, round_number)
    \/ \E u \in Starters : start_quiz(u)
    \/ quiz_commit
    \/ Tick
    \/ deliver

SpecRound == Init /\ [][NextRound]_vars

----------------------------------------------------------------------------
(* The leaderboard (api.get_leaderboard) and the pending lists of the      *)
(* dashboards, with the assignment of participants to evaluators.          *)

(* A second participant, and an anonymous viewer. *)
Contestants == Participants \cup {4}
BoardUsers == Users \cup Contestants
Anonymous == 0
Viewers == BoardUsers \cup {Anonymous}

(* datetime.max, the sort key of a user without a correct submission. *)
datetime_max == 9999

(* scored[:100] *)
board_size == 100

(* admin.toggle_leaderboard *)
toggle_leaderboard(caller) ==
    /\ Quiet
    /\ is_admin(caller)
    /\ leaderboard_public' = ~leaderboard_public
    /\ UNCHANGED <<assigned_evaluator_id, flag_contents, user_flags, quiz_attempts, active_round, users,
                   event_active, now, scores, submissions, total_points,
                   _submission_tracker, reqs, response, calls>>

(* User.get_last_correct_submission_time: MAX(submitted_at) over the       *)
(* user's correct submissions, or None.                                    *)
get_last_correct_submission_time(tbl, u) ==
    LET times == {tbl[i].submitted_at : i \in {j \in DOMAIN tbl :
                     tbl[j].user_id = u /\ tbl[j].is_correct}}
    IN  IF times = {} THEN None ELSE Max(times)

(* The users the leaderboard ranks: neither admins nor evaluators. *)
ranked_users(us) == {u \in us : ~is_admin(u) /\ ~is_evaluator(u)}

(* A list of the users in the order of their ids, unsorted. *)
scored_by_id(us, sc, subs) ==
    [rank \in 1..Cardinality(us) |->
        LET u == CHOOSE v \in us : Cardinality({w \in us : w < v}) = rank - 1
        IN  [rank |-> rank, user |-> u, total_points |-> get_total_points(sc, u),
             last_submission_at |-> get_last_correct_submission_time(subs, u)]]

(* The tuples (u, pts, last_time) of get_leaderboard, sorted by            *)
(* (-pts, last_time or datetime.max) and cut to board_size.  list.sort is  *)
(* stable and the users come from the table in the order of their ids.     *)
scored(us, sc, subs) ==
    LET pts(u) == get_total_points(sc, u)
        last_time(u) == get_last_correct_submission_time(subs, u)
        key(u) == IF last_time(u) = None THEN datetime_max ELSE last_time(u)
        before(a, b) ==
            \/ pts(a) > pts(b)
            \/ pts(a) = pts(b) /\ key(a) < key(b)
            \/ pts(a) = pts(b) /\ key(a) = key(b) /\ a < b
        place(u) == 1 + Cardinality({v \in us : before(v, u)})
        n == IF Cardinality(us) < board_size THEN Cardinality(us) ELSE board_size
    IN  [rank \in 1..n |->
            LET u == CHOOSE v \in us : place(v) = rank
            IN  [rank |-> rank, user |-> u, total_points |-> pts(u),
                 last_submission_at |-> last_time(u)]]

(* A leaderboard without gates. *)
show_leaderboard(viewer) ==
    /\ Quiet
    /\ response' = [NoResponse EXCEPT
                      !.op = "leaderboard", !.result = "success",
                      !.user = viewer,
                      !.leaderboard = scored(ranked_users(users), scores, submissions)]
    /\ UNCHANGED <<leaderboard_public, assigned_evaluator_id, flag_contents, user_flags, quiz_attempts,
                   active_round, users, event_active, now, scores, submissions,
                   total_points, _submission_tracker, reqs, calls>>

(* api.get_leaderboard: the two gates, the ranking, and the cached totals  *)
(* brought in line with the approved entries.                              *)
get_leaderboard(viewer) ==
    /\ Quiet
    /\ LET is_admin_viewer == viewer \in users /\ is_admin(viewer)
           listed == ranked_users(users)
       IN
       IF ~event_active /\ ~is_admin_viewer THEN
           /\ Respond("leaderboard", viewer, None, "frozen", 0)
           /\ UNCHANGED total_points
       ELSE IF ~leaderboard_public /\ ~is_admin_viewer THEN
           /\ Respond("leaderboard", viewer, None, "private", 0)
           /\ UNCHANGED total_points
       ELSE
           /\ response' = [NoResponse EXCEPT
                             !.op = "leaderboard", !.result = "success",
                             !.user = viewer,
                             !.leaderboard = scored(listed, scores, submissions)]
           /\ total_points' =
                 [u \in DOMAIN total_points |->
                     IF u \in listed THEN get_total_points(scores, u)
                     ELSE total_points[u]]
    /\ UNCHANGED <<leaderboard_public, assigned_evaluator_id, flag_contents, user_flags, quiz_attempts,
                   active_round, users, event_active, now, scores, submissions,
                   _submission_tracker, reqs, calls>>

(* Two participants, an evaluator and an admin are registered. *)
Registered ==
    /\ now = 0
    /\ scores = << >>
    /\ submissions = << >>
    /\ total_points = [u \in BoardUsers |-> 0]
    /\ _submission_tracker = [u \in BoardUsers |-> << >>]
    /\ reqs = EmptyBag
    /\ response = NoResponse
    /\ calls = 0
    /\ users = BoardUsers
    /\ active_round = 0
    /\ quiz_attempts = << >>
    /\ assigned_evaluator_id = [u \in BoardUsers |-> None]
    /\ flag_contents = [c \in Challenges |-> catalog_flag_content(flags(c)[1])]
    /\ user_flags = registered_flags(<< >>, flag_contents, BoardUsers \ Admins)

(* The ranking: the event is on and the leaderboard public, the            *)
(* participants submit the flags they have not scored, one call at a time, *)
(* and an evaluator approves pending entries.                              *)
InitBoard ==
    /\ Registered
    /\ event_active = TRUE
    /\ leaderboard_public = TRUE

NextBoard ==
    \/ \E u \in Contestants, c \in Challenges :
            /\ reqs = EmptyBag
            /\ existing_score(scores, u, first_match(c, flag_content(c))) = {}
            /\ submit_flag(u, c, flag_content(c), NoOrder)
    \/ submit_commit
    \/ \E caller \in Evaluators, score_id \in DOMAIN scores :
            /\ reqs = EmptyBag
            /\ ~scores[score_id].is_approved
            /\ evaluator_approve_score(caller, score_id, 1, 1)
    \/ evaluator_approve_commit
    \/ get_leaderboard(Anonymous)
    \/ Tick
    \/ deliver

SpecBoard == InitBoard /\ [][NextBoard]_vars

(* The gates of the leaderboard: an admin turns the event and the          *)
(* leaderboard on and off while a participant and an evaluator submit      *)
(* flags and the evaluator approves.                                       *)
InitGate ==
    /\ Registered
    /\ event_active = FALSE
    /\ leaderboard_public = FALSE

NextGate ==
    \/ \E caller \in Admins : toggle_event(caller)
    \/ \E caller \in Admins : toggle_leaderboard(caller)
    \/ \E u \in Participants \cup Evaluators, c \in Challenges :
            /\ Len(_submission_tracker[u]) < MaxTracked
            /\ submit_flag(u, c, flag_content(c), NoOrder)
    \/ submit_commit
    \/ \E caller \in Evaluators, score_id \in DOMAIN scores :
            evaluator_approve_score(caller, score_id, 1, 1)
    \/ evaluator_approve_commit
    \/ \E viewer \in Viewers : get_leaderboard(viewer)
    \/ deliver

SpecGate == InitGate /\ [][NextGate]_vars

----------------------------------------------------------------------------
(* The assignment of participants to evaluators (admin.py) and the        *)
(* pending lists of the two dashboards.                                    *)

(* The ids an assignment form can send: an evaluator, an admin, and a user *)
(* who is neither.                                                         *)
EvaluatorInputs == Evaluators \cup Admins \cup Participants

(* admin.assign_evaluator *)
assign_evaluator(caller, participant_id, evaluator_id) ==
    /\ Quiet
    /\ is_admin(caller)
    /\ assigned_evaluator_id' =
          IF /\ participant_id \in users
             /\ evaluator_id \in users
             /\ is_evaluator(evaluator_id) \/ is_admin(evaluator_id)
          THEN [assigned_evaluator_id EXCEPT ![participant_id] = evaluator_id]
          ELSE assigned_evaluator_id
    /\ UNCHANGED <<leaderboard_public, flag_contents, user_flags, quiz_attempts, active_round, users,
                   event_active, now, scores, submissions, total_points,
                   _submission_tracker, reqs, response, calls>>

(* admin.unassign_evaluator *)
unassign_evaluator(caller, user_id) ==
    /\ Quiet
    /\ is_admin(caller)
    /\ assigned_evaluator_id' =
          IF user_id \in users
          THEN [assigned_evaluator_id EXCEPT ![user_id] = None]
          ELSE assigned_evaluator_id
    /\ UNCHANGED <<leaderboard_public, flag_contents, user_flags, quiz_attempts, active_round, users,
                   event_active, now, scores, submissions, total_points,
                   _submission_tracker, reqs, response, calls>>

(* admin.bulk_assign_evaluator: evaluator_id is stored as it comes. *)
bulk_assign_evaluator(caller, evaluator_id) ==
    /\ Quiet
    /\ is_admin(caller)
    /\ assigned_evaluator_id' =
          [u \in DOMAIN assigned_evaluator_id |->
              IF /\ u \in users
                 /\ ~is_admin(u)
                 /\ ~is_evaluator(u)
                 /\ assigned_evaluator_id[u] = None
              THEN evaluator_id
              ELSE assigned_evaluator_id[u]]
    /\ UNCHANGED <<leaderboard_public, flag_contents, user_flags, quiz_attempts, active_round, users,
                   event_active, now, scores, submissions, total_points,
                   _submission_tracker, reqs, response, calls>>

(* A list of every pending entry, whoever asks. *)
all_pending(tbl, caller) == {i \in DOMAIN tbl : ~tbl[i].is_approved}

(* evaluator.dashboard, pending_rows: the pending entries, for a caller    *)
(* who is not an admin those of the participants assigned to the caller.   *)
(* The order of the list (awarded_at, descending) is left out.             *)
pending_rows(tbl, caller) ==
    {i \in DOMAIN tbl :
        /\ ~tbl[i].is_approved
        /\ \/ is_admin(caller)
           \/ /\ tbl[i].user_id \in users
              /\ assigned_evaluator_id[tbl[i].user_id] = caller}

(* evaluator.dashboard *)
evaluator_dashboard(caller) ==
    /\ Quiet
    /\ IF ~allowed("evaluator", caller) THEN
           Respond("evaluator_dashboard", caller, None, "redirect", 0)
       ELSE
           response' = [NoResponse EXCEPT
                          !.op = "evaluator_dashboard", !.result = "page",
                          !.user = caller,
                          !.pending_rows = pending_rows(scores, caller)]
    /\ UNCHANGED <<leaderboard_public, assigned_evaluator_id, flag_contents, user_flags, quiz_attempts,
                   active_round, users, event_active, now, scores, submissions,
                   total_points, _submission_tracker, reqs, calls>>

(* admin.dashboard *)
admin_dashboard(caller) ==
    /\ Quiet
    /\ IF ~allowed("admin", caller) THEN
           Respond("admin_dashboard", caller, None, "redirect", 0)
       ELSE
           response' = [NoResponse EXCEPT
                          !.op = "admin_dashboard", !.result = "page",
                          !.user = caller,
                          !.pending_rows = {i \in DOMAIN scores :
                                               ~scores[i].is_approved}]
    /\ UNCHANGED <<leaderboard_public, assigned_evaluator_id, flag_contents, user_flags, quiz_attempts,
                   active_round, users, event_active, now, scores, submissions,
                   total_points, _submission_tracker, reqs, calls>>

(* The event is on; an admin assigns and unassigns the participants while  *)
(* they submit the first flag, entries are approved and rejected, and the  *)
(* dashboards are read.                                                    *)
NextPending ==
    \/ \E caller \in Admins, participant_id \in Contestants,
          evaluator_id \in EvaluatorInputs :
            assign_evaluator(caller, participant_id, evaluator_id)
    \/ \E caller \in Admins, user_id \in Contestants :
            unassign_evaluator(caller, user_id)
    \/ \E caller \in Admins, evaluator_id \in Evaluators :
            bulk_assign_evaluator(caller, evaluator_id)
    \/ \E u \in Contestants :
            /\ existing_score(scores, u, first_match(1, flag_content(1))) = {}
            /\ submit_flag(u, 1, flag_content(1), NoOrder)
    \/ submit_commit
    \/ \E caller \in Evaluators, score_id \in DOMAIN scores :
            evaluator_approve_score(caller, score_id, 1, 1)
    \/ evaluator_approve_commit
    \/ \E caller \in Evaluators, score_id \in DOMAIN scores :
            reject_score("evaluator", caller, score_id)
    \/ reject_commit
    \/ \E caller \in BoardUsers : evaluator_dashboard(caller)
    \/ \E caller \in BoardUsers : admin_dashboard(caller)
    \/ deliver

SpecPending == InitBoard /\ [][NextPending]_vars

----------------------------------------------------------------------------
(* Properties of submission, checked in SpecSubmit and SpecRate. *)

(* The call submit_flag(u, c, text, flag_order) gets as far as matching:   *)
(* the caller is logged in, the event is active, the fields are there, the *)
(* rate limit lets the call pass, the challenge exists and flag_order, if  *)
(* given, is valid.                                                        *)
Matches(u, c, text, flag_order) ==
    /\ u \in users
    /\ event_active
    /\ c # 0 /\ text # << >>
    /\ Len(_check_rate_limit(_submission_tracker, u)) < max_attempts
    /\ c \in Challenges
    /\ flag_order # NoOrder => (flag_order = 1 /\ Len(flags(c)) = 1)

(* The flag of c that text is matched against and found to be: flag_order  *)
(* names it, or the first flag that validates.                             *)
Correct(c, text, flag_order) ==
    IF flag_order # NoOrder
    THEN validate_flag(flags(c)[1], text)
    ELSE first_match(c, text) # None

(* C11: a correct submission for a (participant, flag) pair that already   *)
(* has a score entry, pending or approved, is answered already-scored with *)
(* 0 points; it creates no score entry and leaves every entry, the log and *)
(* the cached totals as they were.                                         *)
C11_AlreadyScored ==
    [][\A u \in Participants, c \in Challenges,
          text \in Texts, flag_order \in OrderInputs :
        (/\ Matches(u, c, text, flag_order)
         /\ Correct(c, text, flag_order)
         /\ \E i \in DOMAIN scores :
               scores[i].user_id = u /\ scores[i].flag_id = flags(c)[1]
         /\ submit_flag(u, c, text, flag_order))
        => /\ response'.result = "already_scored"
           /\ response'.points = 0
           /\ response'.user = u
           /\ UNCHANGED <<scores, submissions, total_points, reqs>>]_vars

(* A correct submission has met the participant's approved entry. *)
C11_Witness ==
    /\ response.op = "submit" /\ response.result = "already_scored"
    /\ \E i \in DOMAIN scores :
          /\ scores[i].user_id = response.user
          /\ scores[i].flag_id = response.id
          /\ scores[i].is_approved

(* C12: every incorrect submission that gets as far as matching appends    *)
(* exactly one row with is_correct false to table submissions and is       *)
(* answered incorrect with the participant's progress in the challenge; it *)
(* creates, changes and deletes no score entry and changes no cached       *)
(* total.                                                                  *)
C12_IncorrectSubmission ==
    [][\A u \in Participants, c \in Challenges,
          text \in Texts, flag_order \in OrderInputs :
        (/\ Matches(u, c, text, flag_order)
         /\ ~Correct(c, text, flag_order)
         /\ submit_flag(u, c, text, flag_order))
        => /\ Len(submissions') = Len(submissions) + 1
           /\ SubSeq(submissions', 1, Len(submissions)) = submissions
           /\ LET sub == submissions'[Len(submissions')]
              IN  /\ sub.user_id = u /\ sub.challenge_id = c
                  /\ sub.submitted_flag = text
                  /\ sub.is_correct = FALSE
           /\ response'.result = "incorrect"
           /\ response'.user = u
           /\ response'.challenge_progress.pending_flags =
                 Cardinality({i \in DOMAIN scores :
                     /\ scores[i].user_id = u /\ scores[i].challenge_id = c
                     /\ ~scores[i].is_approved})
           /\ response'.challenge_progress.completed_flags =
                 Cardinality({i \in DOMAIN scores :
                     /\ scores[i].user_id = u /\ scores[i].challenge_id = c
                     /\ scores[i].is_approved})
           /\ UNCHANGED <<scores, total_points, reqs>>]_vars

(* An incorrect submission is answered while the participant has an entry  *)
(* for the challenge: the log ends with the incorrect row.                 *)
C12_Witness ==
    /\ response.op = "submit" /\ response.result = "incorrect"
    /\ response.challenge_progress.pending_flags
          + response.challenge_progress.completed_flags = 1
    /\ Len(submissions) >= 2
    /\ ~submissions[Len(submissions)].is_correct

(* C13: while the event is not active every submit call is refused and has *)
(* no effect, and so every score entry was created while the event was     *)
(* active: a step that adds a row to table scores is taken with            *)
(* event_active true.                                                      *)
C13_CreatedWhileActive ==
    [][(\E i \in DOMAIN scores' : i \notin DOMAIN scores) => event_active]_vars

(* C18: a submit call that gives a flag_order goes on to matching only if  *)
(* flag_order is 1 and the challenge has exactly one flag; otherwise it is *)
(* answered with a validation or not-found failure and writes no row of    *)
(* submissions and no score entry.                                         *)
C18_FlagOrder ==
    [][\A u \in Participants, c \in ChallengeInputs \ {0},
          text \in Texts \ {<< >>}, flag_order \in OrderInputs \ {NoOrder} :
        (/\ u \in users
         /\ event_active
         /\ Len(_check_rate_limit(_submission_tracker, u)) < max_attempts
         /\ submit_flag(u, c, text, flag_order))
        => IF c \in Challenges /\ flag_order = 1 /\ Len(flags(c)) = 1
           THEN \/ response'.result \in {"incorrect", "already_scored"}
                \/ \E q \in BagToSet(reqs') : Begins(q) /\ q.op = "submit"
           ELSE /\ response'.result \in {"invalid_order", "not_found"}
                /\ UNCHANGED <<scores, submissions, total_points, reqs>>]_vars

(* A call with a flag_order other than 1 for a challenge that exists has   *)
(* been turned away.                                                       *)
C18_Witness ==
    /\ response.op = "submit" /\ response.result = "invalid_order"
    /\ event_active

(* C19: table submissions is append-only: whatever the operation (submit,  *)
(* approve, reject, event toggle, deletion of a user by an admin), every   *)
(* row that exists stays as it is, so a step only adds rows at the end.    *)
C19_AppendOnly ==
    [][/\ Len(submissions') >= Len(submissions)
       /\ SubSeq(submissions', 1, Len(submissions)) = submissions]_vars

(* The positions of u's recorded timestamps that are younger than the      *)
(* window, and those timestamps in the order they were recorded.           *)
Young(u) ==
    {i \in 1..Len(_submission_tracker[u]) : now - _submission_tracker[u][i] < window}

YoungSeq(u) ==
    LET old == Len(_submission_tracker[u]) - Cardinality(Young(u))
    IN  [i \in 1..Cardinality(Young(u)) |-> _submission_tracker[u][i + old]]

(* The call reaches the rate-limit check: it is not turned away by the     *)
(* login check, the gate or the field check.                               *)
Checked(u, c, text) == u \in users /\ event_active /\ c # 0 /\ text # << >>

(* C14: at every instant at most 5 of a participant's calls that passed    *)
(* the rate-limit check have their timestamps in the 60 seconds before it: *)
(* no step drops a recorded timestamp that is younger than 60 seconds, a   *)
(* call passes exactly when fewer than 5 recorded timestamps are younger   *)
(* than 60 seconds, and a call that passes records the clock; so a         *)
(* participant who was limited passes again once timestamps have aged out. *)
C14_SlidingWindow ==
    /\ [](\A u \in Participants :
            /\ Cardinality(Young(u)) <= max_attempts
            /\ \A i \in 1..Len(_submission_tracker[u]) :
                  /\ _submission_tracker[u][i] <= now
                  /\ i \in Young(u) => \A j \in i..Len(_submission_tracker[u]) : j \in Young(u))
    /\ [][\A u \in Participants :
             \/ _submission_tracker'[u] = _submission_tracker[u]
             \/ _submission_tracker'[u] = YoungSeq(u)
             \/ _submission_tracker'[u] = Append(YoungSeq(u), now)]_vars
    /\ [][\A u \in Participants, c \in RateChallenges,
             text \in Texts, flag_order \in RateOrders :
           (Checked(u, c, text) /\ submit_flag(u, c, text, flag_order))
           => IF Cardinality(Young(u)) < 5
              THEN /\ response'.result # "rate_limited"
                   /\ _submission_tracker'[u] = Append(YoungSeq(u), now)
              ELSE /\ response'.result = "rate_limited"
                   /\ _submission_tracker'[u] = YoungSeq(u)]_vars

(* Five calls passed at instant 0 and were logged as incorrect, and a      *)
(* sixth passed a window later.                                            *)
C14_Witness ==
    /\ Len(submissions) >= 6
    /\ \A i \in 1..5 : submissions[i].submitted_at = 0
    /\ submissions[6].submitted_at >= window
    /\ \A i \in 1..6 : submissions[i].user_id = 1 /\ ~submissions[i].is_correct

(* The submit requests of u in flight: each has passed the rate-limit      *)
(* check and has not yet committed.                                        *)
InFlight(u) ==
    LET mine == {q \in BagToSet(reqs) : q.op = "submit" /\ q.user = u}
        RECURSIVE Copies(_)
        Copies(S) == IF S = {} THEN 0
                     ELSE LET q == CHOOSE x \in S : TRUE
                          IN  CopiesIn(q, reqs) + Copies(S \ {q})
    IN  Copies(mine)

(* The rows of the log that are u's: each was written by a call that       *)
(* passed the check.                                                       *)
Logged(u) == Cardinality({i \in 1..Len(submissions) : submissions[i].user_id = u})

(* C15: the rate limiter is safe when requests of one participant          *)
(* interleave: within the first window no call that passed the check, in   *)
(* flight or logged, is missing from the recorded timestamps, and no more  *)
(* than 5 are recorded, so no more than 5 passed.                          *)
C15_NoLostTimestamp ==
    \A u \in Participants :
        now < window =>
            /\ InFlight(u) + Logged(u) <= Len(_submission_tracker[u])
            /\ Len(_submission_tracker[u]) <= max_attempts

(* Two submissions of the participant are in flight together, after calls  *)
(* that were logged.                                                       *)
C15_Witness ==
    /\ InFlight(1) = 2
    /\ Logged(1) >= 2
    /\ now < window

(* The step is the call submit_flag(u, c, text, flag_order) of a logged-in *)
(* participant, made while the event is active with both fields given.     *)
Attempt(u, c, text, flag_order) ==
    Checked(u, c, text) /\ submit_flag(u, c, text, flag_order)

(* The step appends one timestamp, the clock's, to u's window. *)
Recorded(u) == _submission_tracker'[u] = Append(YoungSeq(u), now)

(* C16, as the claim states it: every submit call made while the event is  *)
(* active appends one timestamp to the participant's window, whether it    *)
(* ends as not-found, invalid flag_order, rate-limited, incorrect,         *)
(* already-scored or pending.                                              *)
C16_AlwaysRecorded ==
    [][\A u \in Participants, c \in RateChallenges,
          text \in Texts, flag_order \in RateOrders :
        Attempt(u, c, text, flag_order) => Recorded(u)]_vars

(* C16, amended: every submit call made while the event is active that     *)
(* passes the rate-limit check appends one timestamp to the participant's  *)
(* window, whether it ends as not-found, invalid flag_order, incorrect,    *)
(* already-scored or pending; a call that ends as rate-limited appends     *)
(* none.                                                                   *)
C16_RecordedUnlessLimited ==
    [][\A u \in Participants, c \in RateChallenges,
          text \in Texts, flag_order \in RateOrders :
        Attempt(u, c, text, flag_order)
        => /\ \/ response'.result \in {"not_found", "invalid_order", "incorrect",
                                        "already_scored", "rate_limited"}
              \/ \E q \in BagToSet(reqs') : Begins(q) /\ q.op = "submit" /\ q.user = u
           /\ response'.result # "rate_limited" => Recorded(u)
           /\ response'.result = "rate_limited" =>
                 /\ _submission_tracker'[u] = YoungSeq(u)
                 /\ Len(YoungSeq(u)) = max_attempts]_vars

(* A call for a challenge that does not exist has been recorded beside an  *)
(* earlier one.                                                            *)
C16_Witness ==
    /\ response.op = "submit" /\ response.result = "not_found"
    /\ Len(_submission_tracker[response.user]) >= 2
    /\ _submission_tracker[response.user][Len(_submission_tracker[response.user])] = now

(* The challenge of the call does not exist, or its flag_order is not      *)
(* valid.                                                                  *)
Missing(c) == c \notin Challenges
BadOrder(c, flag_order) ==
    c \in Challenges /\ flag_order # NoOrder /\ ~(flag_order = 1 /\ Len(flags(c)) = 1)

(* C17, as the claim states it: submit checks the gate first, then the     *)
(* existence of the challenge and the validity of flag_order, and only     *)
(* then the rate limit: a call that fails an earlier check gets that       *)
(* check's failure whatever the state of the later ones.                   *)
C17_ExistenceBeforeRate ==
    [][\A u \in Participants, c \in RateChallenges \ {0},
          text \in Texts \ {<< >>}, flag_order \in RateOrders :
        (u \in users /\ submit_flag(u, c, text, flag_order))
        => response'.result =
             IF ~event_active THEN "gate_closed"
             ELSE IF Missing(c) THEN "not_found"
             ELSE IF BadOrder(c, flag_order) THEN "invalid_order"
             ELSE IF Cardinality(Young(u)) >= max_attempts THEN "rate_limited"
             ELSE response'.result]_vars

(* C17, amended: submit checks the gate first, then that the challenge id  *)
(* and the flag text are given, then the rate limit, and only then the     *)
(* existence of the challenge and the validity of flag_order; a call that  *)
(* fails an earlier check gets that check's failure whatever the state of  *)
(* the later ones, and a call that fails none gets none of them.           *)
C17_RateBeforeExistence ==
    [][\A u \in Participants, c \in RateChallenges,
          text \in Texts, flag_order \in RateOrders :
        (u \in users /\ submit_flag(u, c, text, flag_order))
        => IF ~event_active THEN response'.result = "gate_closed"
           ELSE IF c = 0 \/ text = << >> THEN response'.result = "bad_request"
           ELSE IF Cardinality(Young(u)) >= max_attempts
                THEN response'.result = "rate_limited"
           ELSE IF Missing(c) THEN response'.result = "not_found"
           ELSE IF BadOrder(c, flag_order) THEN response'.result = "invalid_order"
           ELSE response'.result \notin {"gate_closed", "bad_request", "rate_limited",
                                         "not_found", "invalid_order"}]_vars

(* A call with a flag_order that is not valid has passed the rate limit as *)
(* the fifth of its window, and then failed the later check.               *)
C17_Witness ==
    /\ response.op = "submit" /\ response.result = "invalid_order"
    /\ Len(_submission_tracker[response.user]) = max_attempts
    /\ _submission_tracker[response.user][max_attempts] = now
    /\ now > 0

----------------------------------------------------------------------------
(* Properties of the quiz, checked in SpecQuiz. *)

(* C20: once an attempt has is_submitted true, no later save, tab-switch,  *)
(* submit, start or page call changes its score, answers, question order,  *)
(* tab-switch counter or finished_at, and is_submitted does not return to  *)
(* false: every step leaves a submitted row as it is.                      *)
C20_SubmittedFrozen ==
    [][\A i \in DOMAIN quiz_attempts :
         quiz_attempts[i].is_submitted =>
            /\ i \in DOMAIN quiz_attempts'
            /\ quiz_attempts'[i] = quiz_attempts[i]]_vars

(* C21: each violation call on an attempt in progress raises the counter   *)
(* of violations by exactly one, the call that brings the counter to       *)
(* MAX_TAB_SWITCHES submits the attempt with the score of the answers      *)
(* saved at that instant, and so an attempt that is not submitted has a    *)
(* counter below MAX_TAB_SWITCHES.                                         *)
C21_ViolationCounts ==
    /\ [](\A i \in DOMAIN quiz_attempts :
            ~quiz_attempts[i].is_submitted =>
                quiz_attempts[i].tab_switches < MAX_TAB_SWITCHES)
    /\ [][\A q \in BagToSet(reqs) :
            (/\ q.op = "tab_switch"
             /\ Ends(q)
             /\ q.id \in DOMAIN quiz_attempts
             /\ ~quiz_attempts[q.id].is_submitted) =>
                /\ quiz_attempts'[q.id].tab_switches =
                      quiz_attempts[q.id].tab_switches + 1
                /\ quiz_attempts'[q.id].tab_switches >= MAX_TAB_SWITCHES =>
                      /\ quiz_attempts'[q.id].is_submitted
                      /\ quiz_attempts'[q.id].score =
                            _compute_score(quiz_attempts[q.id])]_vars

(* The attempt of participant u is in progress. *)
InProgress(u) ==
    /\ attempt_of(quiz_attempts, u) # 0
    /\ ~quiz_attempts[attempt_of(quiz_attempts, u)].is_submitted

(* The deadline of u's attempt, started_at plus the duration, has passed. *)
PastDeadline(u) ==
    now >= quiz_attempts[attempt_of(quiz_attempts, u)].started_at
             + 60 * DURATION_MINUTES

(* The points of the answers in row: POINTS_PER_Q for every answer that    *)
(* names the correct option of the question the order puts at its          *)
(* position.                                                               *)
Tally(row) ==
    POINTS_PER_Q *
    Cardinality({k \in DOMAIN row.answers :
                   /\ k + 1 \in DOMAIN row.question_order
                   /\ row.answers[k] = QUESTIONS[row.question_order[k + 1] + 1].answer})

(* C22: a save call on an attempt in progress whose deadline has passed is *)
(* refused as expired, stores no answer, and submits the attempt with the  *)
(* score of the answers saved before the call.                             *)
C22_LateSave ==
    [][/\ \A u \in Participants, pos \in Positions \cup {None},
             selected \in Options \cup {None} :
             (InProgress(u) /\ PastDeadline(u) /\ save_answer(u, pos, selected)) =>
                 LET row == quiz_attempts[attempt_of(quiz_attempts, u)]
                 IN  \E q \in BagToSet(reqs') :
                        /\ Begins(q)
                        /\ q.op = "save"
                        /\ q.result = "expired"
                        /\ q.new.is_submitted
                        /\ q.new.answers = row.answers
                        /\ q.new.score = Tally(row)
       /\ \A q \in BagToSet(reqs) :
             (q.op = "save" /\ q.result = "expired" /\ Ends(q)) =>
                 /\ response'.result = "expired"
                 /\ quiz_attempts'[q.id].is_submitted
                 /\ quiz_attempts'[q.id].score = q.new.score
                 /\ quiz_attempts'[q.id].answers = quiz_attempts[q.id].answers]_vars

(* C23: every entry point of the quiz that reads or writes the attempt     *)
(* (page, save, tab switch, submit), called on an attempt in progress      *)
(* whose deadline has passed, submits the attempt by expiry before any     *)
(* effect of its own: no answer is stored, the counter is not raised, and  *)
(* the call is not treated as an explicit submission.  A page read that   *)
(* the round gate turns away does not get to the attempt.                  *)
C23_DeadlineFirst ==
    [][\A u \in Participants :
         (/\ InProgress(u)
          /\ PastDeadline(u)
          /\ \/ _round1_allowed(u) /\ round1_page(u)
             \/ record_tab_switch(u)
             \/ submit_quiz(u)
             \/ \E pos \in Positions \cup {None}, selected \in Options \cup {None} :
                    save_answer(u, pos, selected)) =>
             LET row == quiz_attempts[attempt_of(quiz_attempts, u)]
             IN  \E q \in BagToSet(reqs') :
                    /\ Begins(q)
                    /\ q.new = submitted(row)
                    /\ q.result \in {"expired", "submitted"}]_vars

(* Every position 0..N-1 of the stored order has a saved answer. *)
Complete(row) ==
    \A k \in 0..(Len(row.question_order) - 1) : k \in DOMAIN row.answers

(* C24: an explicit submit of an attempt in progress that lacks a saved    *)
(* answer for some position 0..N-1 of the stored order is rejected as      *)
(* incomplete and takes nothing to a commit, so that the attempt stays in  *)
(* progress with its answers, counter and score; this whatever positions   *)
(* the earlier saves carried.                                              *)
C24_SubmitNeedsAll ==
    [][\A u \in Participants :
         (/\ InProgress(u)
          /\ ~Complete(quiz_attempts[attempt_of(quiz_attempts, u)])
          /\ submit_quiz(u)) =>
             /\ reqs' = reqs
             /\ quiz_attempts' = quiz_attempts
             /\ response'.result = "incomplete"]_vars

(* C25: a participant has at most one attempt in every reachable state,    *)
(* and a start call, alone or together with another start of the same      *)
(* participant, leaves every existing attempt as it was and does not end   *)
(* in a fault.                                                             *)
C25_StartOnce ==
    /\ [](\A i, j \in DOMAIN quiz_attempts :
            quiz_attempts[i].user_id = quiz_attempts[j].user_id => i = j)
    /\ [][(response' # response /\ response'.op = "start") =>
            /\ response'.result # "fault"
            /\ \A i \in DOMAIN quiz_attempts :
                  /\ i \in DOMAIN quiz_attempts'
                  /\ quiz_attempts'[i] = quiz_attempts[i]]_vars

(* C26: whenever an attempt becomes submitted, by explicit submit, by      *)
(* expiry or by the tab switch that reaches the maximum, the stored score  *)
(* is POINTS_PER_Q times the number of saved answers that name the correct *)
(* option of the question the stored order puts at their position, and so  *)
(* lies between 0 and N times POINTS_PER_Q.                                *)
C26_FinalScore ==
    [][\A i \in DOMAIN quiz_attempts :
         (/\ i \in DOMAIN quiz_attempts'
          /\ ~quiz_attempts[i].is_submitted
          /\ quiz_attempts'[i].is_submitted) =>
             /\ quiz_attempts'[i].score = Tally(quiz_attempts'[i])
             /\ quiz_attempts'[i].score >= 0
             /\ quiz_attempts'[i].score <= Len(QUESTIONS) * POINTS_PER_Q]_vars

----------------------------------------------------------------------------
(* Properties of the leaderboard, checked in SpecBoard and SpecGate. *)

(* A leaderboard has been returned and is on its way to the viewer. *)
Listed == response.op = "leaderboard" /\ response.result = "success"

(* The list is ranked 1, 2, 3, ... and holds every ranked user once, up to *)
(* board_size of them.                                                     *)
Ranked(lb) ==
    /\ \A r \in DOMAIN lb : lb[r].rank = r
    /\ \A r, q \in DOMAIN lb : lb[r].user = lb[q].user => r = q
    /\ {lb[r].user : r \in DOMAIN lb} \subseteq ranked_users(users)
    /\ Len(lb) = IF Cardinality(ranked_users(users)) < board_size
                 THEN Cardinality(ranked_users(users)) ELSE board_size

(* The list descends by approved points and, among equal points, ascends   *)
(* by time(u), with the users that have no time last.                      *)
OrderedBy(lb, time(_)) ==
    \A r, q \in DOMAIN lb :
        r < q =>
            LET a == lb[r].user
                b == lb[q].user
                pa == get_total_points(scores, a)
                pb == get_total_points(scores, b)
            IN  \/ pa > pb
                \/ /\ pa = pb
                   /\ \/ time(b) = None
                      \/ time(a) # None /\ time(a) <= time(b)

(* The time of the earliest of the user's correct submissions, or None. *)
get_first_correct_submission_time(tbl, u) ==
    LET times == {tbl[i].submitted_at : i \in {j \in DOMAIN tbl :
                     tbl[j].user_id = u /\ tbl[j].is_correct}}
    IN  IF times = {} THEN None ELSE CHOOSE t \in times : \A x \in times : t <= x

FirstCorrect(u) == get_first_correct_submission_time(submissions, u)
LastCorrect(u) == get_last_correct_submission_time(submissions, u)

(* C27 as stated: the leaderboard is ranked 1, 2, 3, ..., descending by    *)
(* approved points and, among equal points, ascending by the time of each  *)
(* participant's earliest correct submission, those without one last.      *)
C27_EarliestFirst ==
    Listed => /\ Ranked(response.leaderboard)
              /\ OrderedBy(response.leaderboard, FirstCorrect)

(* C27 as amended: the leaderboard is ranked 1, 2, 3, ..., descending by   *)
(* approved points and, among equal points, ascending by the time of each  *)
(* participant's latest correct submission, those without one last.        *)
C27_LatestFirst ==
    Listed => /\ Ranked(response.leaderboard)
              /\ OrderedBy(response.leaderboard, LastCorrect)

(* Two participants with equal approved points are listed, the first of    *)
(* them with the earlier latest correct submission although the other has  *)
(* the earlier earliest one.                                               *)
C27_Witness ==
    /\ Listed
    /\ Len(response.leaderboard) = 2
    /\ LET a == response.leaderboard[1].user
           b == response.leaderboard[2].user
       IN  /\ response.leaderboard[1].total_points > 0
           /\ response.leaderboard[1].total_points =
                 response.leaderboard[2].total_points
           /\ LastCorrect(a) < LastCorrect(b)
           /\ FirstCorrect(b) < FirstCorrect(a)

(* The viewer passes both gates of the leaderboard. *)
Admitted(viewer) ==
    LET is_admin_viewer == viewer \in users /\ is_admin(viewer)
    IN  /\ event_active \/ is_admin_viewer
        /\ leaderboard_public \/ is_admin_viewer

(* C28: a leaderboard read returns the ranked list only if the event is    *)
(* active or the viewer an admin, and the leaderboard public or the viewer *)
(* an admin; every other read is refused and carries no participant data.  *)
(* The gates do not move between a read and the delivery of its answer.    *)
C28_Gates ==
    response.op = "leaderboard" =>
        /\ response.result = "success" => Admitted(response.user)
        /\ ~Admitted(response.user) =>
              /\ response.result \in {"frozen", "private"}
              /\ response.leaderboard = << >>
              /\ response.points = 0
              /\ response.challenge_progress = NoProgress

(* A participant is refused the leaderboard of a running event because it  *)
(* is private, while an approved entry exists.                             *)
C28_Witness ==
    /\ response.op = "leaderboard"
    /\ response.result = "private"
    /\ response.user \in Participants
    /\ event_active
    /\ ~leaderboard_public
    /\ \E i \in DOMAIN scores : scores[i].is_approved

RECURSIVE PointsOf(_, _)
(* The sum of the points of the entries of scores that are in ids. *)
PointsOf(tbl, ids) ==
    IF ids = {} THEN 0
    ELSE LET i == CHOOSE x \in ids : TRUE
         IN  tbl[i].points + PointsOf(tbl, ids \ {i})

(* The entries of user u that are approved, and those that are pending. *)
ApprovedOf(u) ==
    {i \in DOMAIN scores : scores[i].user_id = u /\ scores[i].is_approved}
PendingOf(u) ==
    {i \in DOMAIN scores : scores[i].user_id = u /\ ~scores[i].is_approved}

(* C29: the leaderboard lists no admin and no evaluator, and the total it  *)
(* shows for a listed participant is the sum of the points of that         *)
(* participant's approved entries: pending entries add nothing.            *)
C29_ApprovedOnly ==
    Listed =>
        \A r \in DOMAIN response.leaderboard :
            LET u == response.leaderboard[r].user
            IN  /\ ~is_admin(u)
                /\ ~is_evaluator(u)
                /\ response.leaderboard[r].total_points =
                      PointsOf(scores, ApprovedOf(u))

(* A list is returned while an evaluator holds approved points and a       *)
(* listed participant has an approved entry beside a pending entry that    *)
(* stores the points of its flag.                                          *)
C29_Witness ==
    /\ Listed
    /\ \E e \in Evaluators : PointsOf(scores, ApprovedOf(e)) > 0
    /\ \E r \in DOMAIN response.leaderboard :
          LET u == response.leaderboard[r].user
          IN  /\ response.leaderboard[r].total_points > 0
              /\ \E i \in PendingOf(u) : scores[i].points > 0

----------------------------------------------------------------------------
(* Properties of the pending lists, checked in SpecPending. *)

(* The pending entries, and those of them whose participant is assigned to *)
(* evaluator e.                                                            *)
Pending == {i \in DOMAIN scores : ~scores[i].is_approved}
AssignedTo(e) ==
    {i \in Pending : /\ scores[i].user_id \in DOMAIN assigned_evaluator_id
                     /\ assigned_evaluator_id[scores[i].user_id] = e}

(* A dashboard page has been returned to response.user. *)
Page(op) == response.op = op /\ response.result = "page"

(* C30: the pending list an admin is shown holds every pending entry; the  *)
(* list an evaluator who is not an admin is shown holds exactly the        *)
(* pending entries of the participants assigned to that evaluator, none of *)
(* an unassigned participant and none of a participant assigned to someone *)
(* else, whatever assignments, submissions, approvals and rejections came  *)
(* before.                                                                 *)
C30_PendingLists ==
    /\ Page("admin_dashboard") => response.pending_rows = Pending
    /\ Page("evaluator_dashboard") =>
          IF is_admin(response.user)
          THEN response.pending_rows = Pending
          ELSE /\ response.pending_rows = AssignedTo(response.user)
               /\ \A i \in response.pending_rows :
                     /\ assigned_evaluator_id[scores[i].user_id] # None
                     /\ assigned_evaluator_id[scores[i].user_id] = response.user

(* An evaluator who is not an admin is shown the pending entry of the      *)
(* participant assigned to them, while the pending entry of a participant  *)
(* assigned to the admin and not shown exists.                             *)
C30_Witness ==
    /\ Page("evaluator_dashboard")
    /\ ~is_admin(response.user)
    /\ response.pending_rows # {}
    /\ \E i \in Pending \ response.pending_rows :
          assigned_evaluator_id[scores[i].user_id] \in Admins

----------------------------------------------------------------------------
(* The event controls of the admin with their commits apart: each handler  *)
(* loads the singleton row of site_config, assigns one column and commits  *)
(* on its own session, while another handler may do the same.              *)

(* models.SiteConfig: the singleton row. *)
SiteConfig ==
    [active_round |-> active_round, event_active |-> event_active,
     leaderboard_public |-> leaderboard_public]

ConfigOps == {"toggle_event", "toggle_leaderboard", "set_active_round"}

(* An event control in flight: the row it loaded (old) and the object as   *)
(* the handler left it (new).                                              *)
ConfigRequest(op, caller, new) ==
    [op |-> op, user |-> caller, old |-> SiteConfig, new |-> new]

(* admin._require_admin, then the handler up to its db.commit(). *)
config_call(op, caller, new) ==
    /\ Free
    /\ IF ~is_admin(caller) THEN
           /\ Respond(op, caller, None, "forbidden", 0)
           /\ UNCHANGED reqs
       ELSE
           /\ Begin(ConfigRequest(op, caller, new))
           /\ UNCHANGED response
    /\ UNCHANGED <<active_round, event_active, leaderboard_public,
                   assigned_evaluator_id, flag_contents, user_flags, quiz_attempts, users, now, scores,
                   submissions, total_points, _submission_tracker, calls>>

(* admin.toggle_event up to its commit *)
toggle_event_call(caller) ==
    config_call("toggle_event", caller,
                [SiteConfig EXCEPT !.event_active = ~event_active])

(* admin.toggle_leaderboard up to its commit *)
toggle_leaderboard_call(caller) ==
    config_call("toggle_leaderboard", caller,
                [SiteConfig EXCEPT !.leaderboard_public = ~leaderboard_public])

(* admin.set_active_round up to its commit; a round outside 0..3 is        *)
(* answered with the redirect at once.                                     *)
set_active_round_call(caller, round_number) ==
    IF is_admin(caller) /\ round_number \notin {0, 1, 2, 3} THEN
        /\ Free
        /\ Respond("set_active_round", caller, None, "redirect", 0)
        /\ UNCHANGED <<active_round, event_active, leaderboard_public,
                       assigned_evaluator_id, flag_contents, user_flags, quiz_attempts, users, now,
                       scores, submissions, total_points,
                       _submission_tracker, calls, reqs>>
    ELSE
        config_call("set_active_round", caller,
                    [SiteConfig EXCEPT !.active_round = round_number])

(* db.commit() of an event control: the UPDATE of site_config sets the     *)
(* columns the handler changed.                                            *)
config_commit ==
    \E q \in BagToSet(reqs) :
        /\ Quiet
        /\ q.op \in ConfigOps
        /\ End(q)
        /\ LET row == flush_update(SiteConfig, q.old, q.new)
           IN  /\ active_round' = row.active_round
               /\ event_active' = row.event_active
               /\ leaderboard_public' = row.leaderboard_public
        /\ Respond(q.op, q.user, None, "redirect", 0)
        /\ UNCHANGED <<assigned_evaluator_id, flag_contents, user_flags, quiz_attempts, users, now,
                       scores, submissions, total_points,
                       _submission_tracker, calls>>

ConfigCallers == Admins \cup Participants

NextConfig ==
    \/ \E caller \in ConfigCallers : toggle_event_call(caller)
    \/ \E caller \in ConfigCallers : toggle_leaderboard_call(caller)
    \/ \E caller \in ConfigCallers, round_number \in RoundInputs \cup {2, 3} :
            set_active_round_call(caller, round_number)
    \/ config_commit
    \/ deliver

SpecConfig == Init /\ [][NextConfig]_vars

----------------------------------------------------------------------------
(* The text of a flag as the admin edits it, and submissions against it.   *)

(* admin.update_challenge with only flag_content filled in: the flag of    *)
(* the challenge takes the stripped text, a blank one leaves it.           *)
update_challenge(caller, challenge_id, content) ==
    /\ Quiet
    /\ is_admin(caller)
    /\ flag_contents' =
          IF challenge_id \in Challenges /\ content # << >>
          THEN [flag_contents EXCEPT ![flags(challenge_id)[1]] = content]
          ELSE flag_contents
    /\ UNCHANGED <<leaderboard_public, assigned_evaluator_id, quiz_attempts,
                   active_round, users, event_active, now, scores,
                   submissions, total_points, _submission_tracker, reqs,
                   response, calls, user_flags>>

ContentInputs ==
    {<< >>, <<"C", "a">>, <<Marker, "C", ".">>, <<Marker, "C", "(">>,
     <<Marker, "C", TooLarge>>}

TextInputs == {<<"c", "A">>, <<"C", "b">>, <<"C">>, <<"regex:", "c", ".">>}

NextValidate ==
    \/ \E caller \in Admins, c \in ChallengeInputs, content \in ContentInputs :
            update_challenge(caller, c, content)
    \/ \E u \in Participants, c \in Challenges, text \in TextInputs,
          flag_order \in {NoOrder, 1} :
            /\ Len(_submission_tracker[u]) < MaxTracked
            /\ submit_flag(u, c, text, flag_order)
    \/ submit_commit
    \/ deliver

SpecValidate == InitBoard /\ [][NextValidate]_vars

----------------------------------------------------------------------------
(* Registration and login (routes/auth.py).  Both are coroutines that      *)
(* await only the request body: from the first query to the commit of      *)
(* generate_user_flags nothing else runs on the event loop, and no handler *)
(* of the thread pool writes user_flags, so each call is one step.         *)
(* accepted stands for the outcome of the checks on the body (fields,      *)
(* formats, unused username and email; username and password at login).    *)

(* auth.register: user_id is the id the INSERT gives the new row. *)
register(user_id, accepted) ==
    /\ Quiet
    /\ user_id = Max(users) + 1
    /\ IF accepted
       THEN /\ users' = users \cup {user_id}
            /\ user_flags' = generate_user_flags(user_flags, flag_contents, user_id)
            /\ Respond("register", user_id, None, "success", 0)
       ELSE /\ Respond("register", None, None, "rejected", 0)
            /\ UNCHANGED <<users, user_flags>>
    /\ UNCHANGED <<leaderboard_public, assigned_evaluator_id, flag_contents,
                   quiz_attempts, active_round, event_active, now, scores,
                   submissions, total_points, _submission_tracker, reqs,
                   calls>>

(* auth.login *)
login(user_id, accepted) ==
    /\ Quiet
    /\ IF user_id \in users /\ accepted
       THEN /\ user_flags' = generate_user_flags(user_flags, flag_contents, user_id)
            /\ Respond("login", user_id, None, "success", 0)
       ELSE /\ Respond("login", user_id, None, "invalid", 0)
            /\ UNCHANGED user_flags
    /\ UNCHANGED <<leaderboard_public, assigned_evaluator_id, flag_contents,
                   quiz_attempts, active_round, users, event_active, now,
                   scores, submissions, total_points, _submission_tracker,
                   reqs, calls>>

(* The site after its first start: the default admin of                    *)
(* ensure_default_admin is the only user and nobody has logged in.         *)
InitFlags ==
    /\ event_active = FALSE
    /\ now = 0
    /\ scores = << >>
    /\ submissions = << >>
    /\ total_points = [u \in BoardUsers |-> 0]
    /\ _submission_tracker = [u \in BoardUsers |-> << >>]
    /\ reqs = EmptyBag
    /\ response = NoResponse
    /\ calls = 0
    /\ users = Admins
    /\ active_round = 0
    /\ quiz_attempts = << >>
    /\ leaderboard_public = FALSE
    /\ assigned_evaluator_id = [u \in BoardUsers |-> None]
    /\ flag_contents = [c \in Challenges |-> catalog_flag_content(flags(c)[1])]
    /\ user_flags = << >>

NextFlags ==
    \/ \E u \in BoardUsers, accepted \in BOOLEAN : register(u, accepted)
    \/ \E u \in BoardUsers, accepted \in BOOLEAN : login(u, accepted)
    \/ \E caller \in Admins, c \in ChallengeInputs, content \in ContentInputs :
            update_challenge(caller, c, content)
    \/ deliver

SpecFlags == InitFlags /\ [][NextFlags]_vars

----------------------------------------------------------------------------
(* Approvals that overlap: a participant's entries are approved by calls   *)
(* that are all made before the first of them commits, each for an entry   *)
(* no other call in flight is for.                                         *)

Overlapping(score_id) ==
    /\ score_id \in DOMAIN scores
    /\ \A i \in DOMAIN scores :
          scores[i].user_id = scores[score_id].user_id => ~scores[i].is_approved
    /\ \A q \in BagToSet(reqs) : q.score_id # score_id

NextApprove ==
    \/ \E u \in Participants, c \in Challenges :
            /\ reqs = EmptyBag
            /\ existing_score(scores, u, first_match(c, flag_content(c))) = {}
            /\ submit_flag(u, c, flag_content(c), NoOrder)
    \/ submit_commit
    \/ \E caller \in Evaluators, score_id \in ScoreIds, p \in PointInputs :
            /\ Overlapping(score_id)
            /\ evaluator_approve_score(caller, score_id, p[1], p[2])
    \/ evaluator_approve_commit
    \/ \E caller \in Admins, score_id \in ScoreIds, p \in PointInputs :
            /\ Overlapping(score_id)
            /\ admin_approve_score(caller, score_id, p[1], p[2])
    \/ admin_approve_commit
    \/ Tick
    \/ deliver

SpecApprove == InitBoard /\ [][NextApprove]_vars

----------------------------------------------------------------------------
(* Properties of the round gate, checked in SpecRound. *)

Permitted(u) == u \in Admins \/ active_round \in {1, 2, 3}

----------------------------------------------------------------------------
(* Further properties of the quiz, checked in SpecAnswers and SpecQuiz. *)

(* C37: no sequence of quiz calls ends in an unhandled fault, a saved      *)
(* position outside the question order included: no quiz call is ever      *)
(* answered with a fault.                                                  *)
C37_NoFault ==
    response.op \in QuizOps => response.result # "fault"

(* The same of the calls that score an attempt, which a start is not.      *)
C37_NoScoringFault ==
    response.op \in QuizOps \ {"start"} => response.result # "fault"

(* The columns of an attempt other than its answers. *)
OtherColumns == DOMAIN NoAttempt \ {"answers"}

(* The keys at which answer sheet b differs from answer sheet a. *)
Changed(a, b) ==
    {k \in DOMAIN a \cup DOMAIN b :
        k \notin DOMAIN a \/ k \notin DOMAIN b \/ a[k] # b[k]}

(* C38: a save accepted before the deadline sets the answer at its         *)
(* position and changes nothing else of the attempt: the object it takes   *)
(* to its commit is the row it found with the one answer set, a position   *)
(* saved before keeping its single entry; its commit writes that answer    *)
(* sheet, which differs from the stored one at no more than one key, and   *)
(* no other column and no other row; and the count it returns is the       *)
(* number of positions stored.                                             *)
C38_SaveFrame ==
    [][/\ \A u \in Participants, pos \in Positions, selected \in Options :
            LET ids == {i \in DOMAIN quiz_attempts :
                            quiz_attempts[i].user_id = u}
            IN  \A id \in ids :
                  (/\ ~quiz_attempts[id].is_submitted
                   /\ now < quiz_attempts[id].started_at + 60 * DURATION_MINUTES
                   /\ save_answer(u, pos, selected)) =>
                      \E q \in BagToSet(reqs') :
                          /\ CopiesIn(q, reqs') > CopiesIn(q, reqs)
                          /\ q.op = "save" /\ q.result = "ok" /\ q.id = id
                          /\ DOMAIN q.new.answers =
                                DOMAIN quiz_attempts[id].answers \cup {pos}
                          /\ q.new.answers[pos] = selected
                          /\ Changed(quiz_attempts[id].answers, q.new.answers)
                                \subseteq {pos}
                          /\ \A col \in OtherColumns :
                                q.new[col] = quiz_attempts[id][col]
       /\ \A q \in BagToSet(reqs) :
            (/\ q.op = "save" /\ q.result = "ok"
             /\ CopiesIn(q, reqs') < CopiesIn(q, reqs)) =>
                /\ DOMAIN quiz_attempts' = DOMAIN quiz_attempts
                /\ quiz_attempts'[q.id].answers = q.new.answers
                /\ Cardinality(Changed(quiz_attempts[q.id].answers,
                                       q.new.answers)) <= 1
                /\ DOMAIN quiz_attempts[q.id].answers
                      \subseteq DOMAIN q.new.answers
                /\ \A col \in OtherColumns :
                      quiz_attempts'[q.id][col] = quiz_attempts[q.id][col]
                /\ \A i \in DOMAIN quiz_attempts \ {q.id} :
                      quiz_attempts'[i] = quiz_attempts[i]
                /\ response'.op = "save" /\ response'.result = "ok"
                /\ response'.points =
                      Cardinality(DOMAIN quiz_attempts'[q.id].answers)]_vars

C38_Witness ==
    /\ response.op = "save"
    /\ response.result = "ok"
    /\ response.points = 2
    /\ \E i \in DOMAIN quiz_attempts :
          /\ quiz_attempts[i].user_id = response.user
          /\ DOMAIN quiz_attempts[i].answers = {0, 2}
          /\ quiz_attempts[i].tab_switches = 1
          /\ ~quiz_attempts[i].is_submitted

(* C39: the stored question order is a permutation of 0..N-1 and a         *)
(* function of the participant alone: every attempt, stored or on its way  *)
(* to its commit, has each index of the questions exactly once, and two    *)
(* starts of one participant, whenever called, carry the same order; and   *)
(* no later step, be it a save, a tab switch, a submit or an expiry,       *)
(* changes the order or removes the attempt.                               *)
Permutation(order) ==
    /\ Len(order) = Len(QUESTIONS)
    /\ \A n \in 0..(Len(QUESTIONS) - 1) :
          Cardinality({k \in DOMAIN order : order[k] = n}) = 1

Orders(u) ==
    {quiz_attempts[i].question_order :
        i \in {j \in DOMAIN quiz_attempts : quiz_attempts[j].user_id = u}}
    \cup {q.new.question_order :
            q \in {r \in BagToSet(reqs) : r.op \in QuizOps /\ r.user = u}}

C39_OrderFixed ==
    /\ [](\A u \in Users :
            /\ \A order \in Orders(u) : Permutation(order)
            /\ Cardinality(Orders(u)) <= 1)
    /\ [][\A i \in DOMAIN quiz_attempts :
            /\ i \in DOMAIN quiz_attempts'
            /\ quiz_attempts'[i].question_order =
                  quiz_attempts[i].question_order]_vars

C39_Witness ==
    \E i \in DOMAIN quiz_attempts :
        /\ quiz_attempts[i].is_submitted
        /\ quiz_attempts[i].finished_at >= quiz_attempts[i].started_at + 60
        /\ quiz_attempts[i].tab_switches = 1
        /\ DOMAIN quiz_attempts[i].answers = {0, 1}
        /\ quiz_attempts[i].question_order = <<0, 1>>

----------------------------------------------------------------------------
(* Properties of the event controls, checked in SpecConfig. *)

Rounds == 0..3

(* A request entered reqs in this step, or left it. *)
Entered(q) == CopiesIn(q, reqs') > CopiesIn(q, reqs)

Left(q) == CopiesIn(q, reqs') < CopiesIn(q, reqs)

----------------------------------------------------------------------------
(* Properties of overlapping approvals, checked in SpecApprove. *)

Settled(routes) ==
    /\ \A q \in BagToSet(reqs) : q.op \notin ApproveOps
    /\ \A i \in DOMAIN scores :
          scores[i].is_approved =>
            (IF is_admin(scores[i].approved_by) THEN "admin_approve"
             ELSE "evaluator_approve") \in routes

Counted(u) ==
    LET mine == {i \in DOMAIN scores :
                    scores[i].user_id = u /\ scores[i].is_approved}
    IN  Cardinality(mine) = 2 => total_points[u] = PointsOf(scores, mine)

(* C35: when the approvals of two different pending entries of one         *)
(* participant overlap, then after both have committed the cached total is *)
(* the sum of the points of both approved entries.                         *)
C35_BothCounted ==
    Settled(ApproveOps) => \A u \in Participants : Counted(u)

(* The same of approvals through the evaluator route alone. *)
C35_EvaluatorRoute ==
    Settled({"evaluator_approve"}) => \A u \in Participants : Counted(u)

----------------------------------------------------------------------------
(* A further property of submission, checked in Spec. *)

(* The rows of submissions that log a correct attempt of user u on flag f. *)
CorrectAttempts(u, f) ==
    {j \in DOMAIN submissions :
        /\ submissions[j].user_id = u
        /\ submissions[j].flag_id = f
        /\ submissions[j].is_correct}

(* C36: a score entry and the correct attempt of the request that creates  *)
(* it become visible together: in every state each score entry has a       *)
(* correct attempt of the same participant on the same flag, logged at or  *)
(* before the present time, and a step that adds a score entry adds such   *)
(* an attempt in the same step.                                            *)
C36_EntryHasAttempt ==
    /\ [](\A i \in DOMAIN scores :
            \E j \in CorrectAttempts(scores[i].user_id, scores[i].flag_id) :
                submissions[j].submitted_at <= now)
    /\ [][\A i \in DOMAIN scores' :
            i \notin DOMAIN scores =>
                /\ Len(submissions') = Len(submissions) + 1
                /\ LET sub == submissions'[Len(submissions')]
                   IN  /\ sub.user_id = scores'[i].user_id
                       /\ sub.flag_id = scores'[i].flag_id
                       /\ sub.is_correct
                       /\ sub.submitted_at = now]_vars

C36_Witness ==
    \E i \in DOMAIN scores :
        /\ scores[i].is_approved
        /\ Cardinality(CorrectAttempts(scores[i].user_id, scores[i].flag_id)) = 1
        /\ \E j \in DOMAIN submissions :
              /\ submissions[j].user_id = scores[i].user_id
              /\ ~submissions[j].is_correct

----------------------------------------------------------------------------
(* Properties of validation, checked in SpecValidate. *)

(* The pattern of a tagged text, whether it is well formed, and whether it *)
(* matches a text.                                                         *)
PatternOf(content) == SelectSeq(content, LAMBDA ch : ch # Marker)

WellFormed(pattern) ==
    \A i \in DOMAIN pattern : pattern[i] \notin {"(", TooLarge}

PatternMatches(pattern, text) ==
    /\ Len(pattern) <= Len(text)
    /\ \A i \in DOMAIN pattern : pattern[i] \in {".", text[i]}

(* What the claim has validation return. *)
Valid(content, text) ==
    \/ lower(content) = lower(text)
    \/ /\ content # << >>
       /\ content[1] = Marker
       /\ WellFormed(PatternOf(content))
       /\ PatternMatches(PatternOf(content), text)

(* C32: validation is true exactly when the text equals the flag's text    *)
(* ignoring case, or the flag is tagged as a pattern and the pattern       *)
(* matches; a malformed pattern is no match and raises nothing, so the     *)
(* submission against it is logged and answered as incorrect: a submit     *)
(* call that passes the gate and the rate limit is taken as correct when   *)
(* validation is to be true, and otherwise appends an incorrect attempt    *)
(* and is answered incorrect.                                              *)
C32_Validation ==
    [][\A u \in Participants, c \in Challenges, text \in TextInputs,
          flag_order \in {NoOrder, 1} :
        (/\ u \in users
         /\ event_active
         /\ Len(_check_rate_limit(_submission_tracker, u)) < max_attempts
         /\ submit_flag(u, c, text, flag_order))
        => IF Valid(flag_contents[flags(c)[1]], text)
           THEN /\ submissions' = submissions
                /\ \/ response'.result = "already_scored"
                   \/ \E q \in BagToSet(reqs') :
                        /\ CopiesIn(q, reqs') > CopiesIn(q, reqs)
                        /\ q.op = "submit"
                        /\ q.flag_id = flags(c)[1]
           ELSE /\ response'.result = "incorrect"
                /\ reqs' = reqs
                /\ Len(submissions') = Len(submissions) + 1
                /\ ~submissions'[Len(submissions')].is_correct]_vars

----------------------------------------------------------------------------
(* Properties of the personalised flags.                                   *)

RowsFor(tbl, u, f) ==
    {i \in DOMAIN tbl : tbl[i].user_id = u /\ tbl[i].flag_id = f}

(* C31: generation is idempotent.  No pair of a user and a flag ever has   *)
(* two rows; a registration or a login that succeeds leaves exactly one    *)
(* row for the user and each flag; and no step removes a row or changes    *)
(* one, so the value of a pair is the one its first generation stored,     *)
(* whatever the flag's text has become since.                              *)
C31_Idempotent ==
    /\ [](\A u \in BoardUsers, f \in AllFlags :
              Cardinality(RowsFor(user_flags, u, f)) <= 1)
    /\ [][/\ \A i \in DOMAIN user_flags :
                 i \in DOMAIN user_flags' /\ user_flags'[i] = user_flags[i]
          /\ (/\ response # response'
              /\ response'.op \in {"register", "login"}
              /\ response'.result = "success")
             => \A f \in AllFlags :
                    Cardinality(RowsFor(user_flags', response'.user, f)) = 1
         ]_vars

(* A login has just succeeded for a user one of whose rows was generated   *)
(* from a text the flag no longer has.                                     *)
C31_Witness ==
    /\ response.op = "login"
    /\ response.result = "success"
    /\ \E i \in DOMAIN user_flags :
          /\ user_flags[i].user_id = response.user
          /\ user_flags[i].flag_value #
                unique_flag(response.user, user_flags[i].flag_id,
                            flag_contents[user_flags[i].flag_id])
====
